---- MODULE Spec2Model ----
(***************************************************************************)
(* Model of the Nord collection engine (plugins/collection), the plugin    *)
(* controller (base), the network perception run (plugins/network) and the *)
(* SNMP parameter extraction (plugins/snmp).                               *)
(*                                                                         *)
(* Strings are sequences of one-character strings, so that TrimSpace,      *)
(* Split, Fields and ToLower are computed and not assumed.                 *)
(***************************************************************************)
EXTENDS Integers, Sequences, FiniteSets, TLC

(***************************************************************************)
(* Bounds of the model.                                                    *)
(***************************************************************************)
\* longest hosts[*].collect list of the first configured host
MaxCollect == 2
\* longest comma-separated collect string drawn for the normalization runs
MaxStrLen == 3

(***************************************************************************)
(* strings.* helpers of the Go standard library, as the code uses them.    *)
(***************************************************************************)
IsSpace(c) == c = " "

RECURSIVE TrimLeft(_)
TrimLeft(s) ==
    IF s = <<>> THEN s
    ELSE IF IsSpace(Head(s)) THEN TrimLeft(Tail(s)) ELSE s

RECURSIVE TrimRight(_)
TrimRight(s) ==
    IF s = <<>> THEN s
    ELSE IF IsSpace(s[Len(s)]) THEN TrimRight(SubSeq(s, 1, Len(s) - 1)) ELSE s

\* the digits of a fraction without the zeros at its end
RECURSIVE TrimDigits(_)
TrimDigits(s) ==
    IF s # <<>> /\ s[Len(s)] = "0" THEN TrimDigits(SubSeq(s, 1, Len(s) - 1)) ELSE s

\* strings.TrimSpace
TrimSpace(s) == TrimRight(TrimLeft(s))

\* index of the first occurrence of character c in s, 0 when absent
IndexOf(s, c) ==
    IF \E i \in 1..Len(s) : s[i] = c
    THEN CHOOSE i \in 1..Len(s) : s[i] = c /\ \A j \in 1..(i - 1) : s[j] # c
    ELSE 0

RECURSIVE SeqOf(_)
\* the elements of a set in the order a map iteration takes
SeqOf(S) ==
    IF S = {} THEN <<>>
    ELSE LET x == CHOOSE y \in S : TRUE IN <<x>> \o SeqOf(S \ {x})

RECURSIVE Concat(_)
\* append(a, b...) over a list of lists
Concat(seqs) == IF seqs = <<>> THEN <<>> ELSE Head(seqs) \o Concat(Tail(seqs))

RECURSIVE Trim(_, _)
\* strings.Trim(s, cutset)
Trim(s, cutset) ==
    IF s = <<>> THEN s
    ELSE IF Head(s) \in cutset THEN Trim(Tail(s), cutset)
    ELSE IF s[Len(s)] \in cutset THEN Trim(SubSeq(s, 1, Len(s) - 1), cutset)
    ELSE s

\* strings.Split(s, sep) for a one-character separator: "" gives [""]
RECURSIVE Split(_, _)
Split(s, sep) ==
    LET i == IndexOf(s, sep) IN
    IF i = 0 THEN <<s>>
    ELSE <<SubSeq(s, 1, i - 1)>> \o Split(SubSeq(s, i + 1, Len(s)), sep)

\* strings.Fields: the maximal runs of non-space characters
RECURSIVE Fields(_)
Fields(s) ==
    LET t == TrimLeft(s) IN
    IF t = <<>> THEN <<>>
    ELSE LET i == IndexOf(t, " ")
             n == IF i = 0 THEN Len(t) ELSE i - 1
         IN  <<SubSeq(t, 1, n)>> \o Fields(SubSeq(t, n + 1, Len(t)))

UpperCase ==
    <<"A", "B", "C", "D", "E", "F", "G", "H", "I", "J", "K", "L", "M",
      "N", "O", "P", "Q", "R", "S", "T", "U", "V", "W", "X", "Y", "Z">>

LowerCase ==
    <<"a", "b", "c", "d", "e", "f", "g", "h", "i", "j", "k", "l", "m",
      "n", "o", "p", "q", "r", "s", "t", "u", "v", "w", "x", "y", "z">>

LowerChar(c) ==
    IF \E i \in 1..Len(UpperCase) : UpperCase[i] = c
    THEN LowerCase[CHOOSE i \in 1..Len(UpperCase) : UpperCase[i] = c]
    ELSE c

\* strings.ToLower
ToLower(s) == [i \in 1..Len(s) |-> LowerChar(s[i])]

\* all sequences over S of length at most n
SeqsUpTo(S, n) == UNION {[1..k -> S] : k \in 0..n}

(***************************************************************************)
(* JSON values of hosts[*].collect as json.Unmarshal gives them in the     *)
(* generic map: a string, an array of strings and objects, null, or a key  *)
(* that is absent.                                                         *)
(***************************************************************************)
NoStr == <<>>

StrItem(s) ==
    [kind |-> "string", str |-> s, metric |-> NoStr, hasCred |-> FALSE, cred |-> NoStr]

ObjItem(m, c) ==
    [kind |-> "object", str |-> NoStr, metric |-> m, hasCred |-> TRUE, cred |-> c]

ObjItemNoCred(m) ==
    [kind |-> "object", str |-> NoStr, metric |-> m, hasCred |-> FALSE, cred |-> NoStr]

JString(s) == [kind |-> "string", str |-> s, items |-> <<>>]
JArray(items) == [kind |-> "array", str |-> NoStr, items |-> items]
JAbsent == [kind |-> "absent", str |-> NoStr, items |-> <<>>]

\* a typed plugin.CollectTask
CollectTask(m, c) == [metric |-> m, credentials |-> c]

(***************************************************************************)
(* loadConfig: normalization of hosts[*].collect to the array-of-objects   *)
(* form, and the typed decoding of the re-marshalled configuration.        *)
(***************************************************************************)
\* the entry built from the fields of one "<metric> <credential>?" item
EntryOfFields(fields) ==
    IF Len(fields) >= 2
    THEN ObjItem(TrimSpace(fields[1]), TrimSpace(fields[2]))
    ELSE ObjItemNoCred(TrimSpace(fields[1]))

\* case string: the items of strings.Split(v, ","), blank items skipped
RECURSIVE NormalizeParts(_)
NormalizeParts(parts) ==
    IF parts = <<>> THEN <<>>
    ELSE LET item == TrimSpace(Head(parts)) IN
         IF item = <<>> THEN NormalizeParts(Tail(parts))
         ELSE <<EntryOfFields(Fields(item))>> \o NormalizeParts(Tail(parts))

\* a type switch that appends an object both inside and after the metric test
NormalizeItemsAppendTwice(items) ==
    Concat([i \in 1..Len(items) |->
        CASE items[i].kind = "string" ->
                IF Len(Fields(TrimSpace(items[i].str))) = 0 THEN <<>>
                ELSE <<EntryOfFields(Fields(TrimSpace(items[i].str)))>>
          [] items[i].kind = "object" ->
                <<[items[i] EXCEPT !.metric = TrimSpace(@)],
                  [items[i] EXCEPT !.metric = TrimSpace(@)]>>
          [] OTHER -> <<>>])

\* case []interface{}: string items are split in fields, objects get their
\* metric trimmed, anything else is dropped
RECURSIVE NormalizeItems(_)
NormalizeItems(items) ==
    IF items = <<>> THEN <<>>
    ELSE LET it == Head(items)
             rest == NormalizeItems(Tail(items))
         IN  CASE it.kind = "string" ->
                    LET fields == Fields(TrimSpace(it.str)) IN
                    IF Len(fields) = 0 THEN rest
                    ELSE <<EntryOfFields(fields)>> \o rest
               [] it.kind = "object" ->
                    <<[it EXCEPT !.metric = TrimSpace(it.metric)]>> \o rest
               [] OTHER -> rest

\* the slice `normalized` built by the type switch
Normalize(coll) ==
    CASE coll.kind = "string" -> NormalizeParts(Split(coll.str, ","))
      [] coll.kind = "array" -> NormalizeItems(coll.items)
      [] OTHER -> <<>>

\* hostMap["collect"] after the normalization step: replaced only when the
\* normalized slice is not empty
NormalizedCollect(coll) ==
    IF Len(Normalize(coll)) > 0 THEN JArray(Normalize(coll)) ELSE coll

\* json.Unmarshal of one collect value into []plugin.CollectTask succeeds
\* for an absent key and for an array holding only objects
DecodeOK(coll) ==
    \/ coll.kind = "absent"
    \/ coll.kind = "array" /\ \A i \in 1..Len(coll.items) : coll.items[i].kind = "object"

\* the decoded []plugin.CollectTask
DecodeTasks(coll) ==
    IF coll.kind = "array"
    THEN [i \in 1..Len(coll.items) |->
            CollectTask(coll.items[i].metric,
                        IF coll.items[i].hasCred THEN coll.items[i].cred ELSE NoStr)]
    ELSE <<>>

\* the maps cached in rawCollect / rawCollectByAddr for one host
CachedCollect(coll) == Normalize(coll)

(***************************************************************************)
(* The plugin registry: Controller.AddPlugin keys every plugin by the      *)
(* lower-cased Name().                                                     *)
(***************************************************************************)
\* Name() of the plugins linked into the program ("Network", "Snmp",
\* "Collection", "Local"), shortened to their first letter
PluginNames == {<<"N">>, <<"S">>, <<"C">>, <<"L">>}

\* Controller.AddPlugin: c.Plugins[strings.ToLower(p.Name())] = p
AddPlugin(plugins, name) == plugins \cup {ToLower(name)}

\* the keys of Controller.Plugins after main registered plugins.All
RECURSIVE AddAll(_, _)
AddAll(plugins, names) ==
    IF names = {} THEN plugins
    ELSE LET n == CHOOSE x \in names : TRUE
         IN  AddAll(AddPlugin(plugins, n), names \ {n})

Plugins == AddAll({}, PluginNames)

\* collectTask: "<plugin>.<action>" split on ".", the action defaulting to
\* "all"
PluginOf(metric) == TrimSpace(Split(metric, ".")[1])

ActionOf(metric) ==
    LET parts == Split(metric, ".") IN
    IF Len(parts) >= 2 THEN TrimSpace(parts[2]) ELSE <<"a", "l", "l">>

\* collectTask: the registry key looked up for a task's plugin name
TaskPluginKey(pluginName) == ToLower(pluginName)

(***************************************************************************)
(* Values of a map[string]interface{}: a Go value with its dynamic type.   *)
(***************************************************************************)
Digit(d) == CASE d = 0 -> "0" [] d = 1 -> "1" [] d = 2 -> "2" [] d = 3 -> "3"
              [] d = 4 -> "4" [] d = 5 -> "5" [] d = 6 -> "6" [] d = 7 -> "7"
              [] d = 8 -> "8" [] OTHER -> "9"

RECURSIVE Sprintf_d(_)
\* fmt.Sprintf("%d", n) for n >= 0
Sprintf_d(n) == IF n < 10 THEN <<Digit(n)>> ELSE Sprintf_d(n \div 10) \o <<Digit(n % 10)>>

\* dynamically typed values of a map[string]interface{}
GoString(str) == [type |-> "string", str |-> str, num |-> 0]

\* SQL NULL
Null == [type |-> "null", str |-> <<>>, num |-> 0]

\* a Go number of the given type (int, uint, uint32, uint64, float64)
GoNum(type, n) == [type |-> type, str |-> <<>>, num |-> n]

\* a value that is neither a string nor a number ([]int, []byte, nil)
GoOther(type) == [type |-> type, str |-> <<>>, num |-> 0]

NumTypes == {"int", "uint", "uint32", "uint64", "float64"}

\* fmt.Sprintf("%v", v) for a string or a non-negative whole number
Sprintf_v(v) ==
    IF v.type = "string" THEN v.str
    ELSE IF v.type \in NumTypes THEN Sprintf_d(v.num)
    ELSE <<"[", "]">>

\* v, _ := m[key].(string)
AsString(m, key) ==
    IF key \in DOMAIN m /\ m[key].type = "string" THEN m[key].str ELSE <<>>

\* v, _ := m[key].(float64)
AsFloat64(m, key) ==
    IF key \in DOMAIN m /\ m[key].type = "float64" THEN m[key].num ELSE 0

(***************************************************************************)
(* The SNMP collector: formatValue, the scalar queries of querySNMP,       *)
(* walkTable and processInterfaceTable.  A PDU is {name, type, value}; the *)
(* value is the Go value gosnmp decodes for the PDU's type.                *)
(***************************************************************************)
GoBytes(str) == [type |-> "bytes", str |-> str, num |-> 0]

Pdu(name, type, value) == [name |-> name, type |-> type, value |-> value]

DigitChars == {"0", "1", "2", "3", "4", "5", "6", "7", "8", "9"}

DigitVal(c) == CHOOSE d \in 0..9 : Digit(d) = c

RECURSIVE AtoiFrom(_, _)
AtoiFrom(acc, str) ==
    IF str = <<>> THEN acc ELSE AtoiFrom(acc * 10 + DigitVal(Head(str)), Tail(str))

\* val, _ := strconv.Atoi(s) for an unsigned s: 0 when s is not a number
Atoi(str) ==
    IF str # <<>> /\ \A i \in 1..Len(str) : str[i] \in DigitChars
    THEN AtoiFrom(0, str) ELSE 0

\* fmt.Sprintf("%v", variable.Value)
SprintValue(v) == IF v.type = "bytes" THEN <<"[">> \o v.str \o <<"]">> ELSE Sprintf_v(v)

TicksPerSecond == 100

\* "%dd %dh %dm %ds" of a TimeTicks value (hundredths of a second)
FormatTicks(ticks) ==
    LET secs == ticks \div TicksPerSecond
    IN  Sprintf_d(secs \div 86400) \o <<"d", " ">> \o
        Sprintf_d((secs \div 3600) % 24) \o <<"h", " ">> \o
        Sprintf_d((secs \div 60) % 60) \o <<"m", " ">> \o
        Sprintf_d(secs % 60) \o <<"s">>

IfStatusName(n) ==
    CASE n = 1 -> <<"u", "p">>
      [] n = 2 -> <<"d", "o", "w", "n">>
      [] n = 3 -> <<"t", "e", "s", "t", "i", "n", "g">>
      [] n = 4 -> <<"u", "n", "k", "n", "o", "w", "n">>
      [] n = 5 -> <<"d", "o", "r", "m", "a", "n", "t">>
      [] n = 6 -> <<"n", "o", "t", "P", "r", "e", "s", "e", "n", "t">>
      [] n = 7 -> <<"l", "o", "w", "e", "r", "L", "a", "y", "e", "r", "D", "o", "w", "n">>
      [] OTHER -> Sprintf_d(n)

RECURSIVE JoinMac(_)
JoinMac(b) ==
    IF Len(b) = 1 THEN <<"0", b[1]>> ELSE <<"0", b[1], ":">> \o JoinMac(Tail(b))

\* formatValue
\* durationRe's unit letters and the seconds parseDuration adds for one unit
DurationUnits == {"d", "h", "m", "s"}

UnitSecondsHoursOnly(u) == 3600

UnitSeconds(u) ==
    CASE u = "d" -> 86400
      [] u = "h" -> 3600
      [] u = "m" -> 60
      [] u = "s" -> 1

\* the first index from i on whose character is not in set cs (Len(s) + 1
\* when there is none): the end of a greedy \d+ or \s* run
RECURSIVE RunEnd(_, _, _)
RunEnd(s, i, cs) ==
    IF i <= Len(s) /\ s[i] \in cs THEN RunEnd(s, i + 1, cs) ELSE i

\* durationRe.FindAllStringSubmatch(s, -1): the leftmost non-overlapping
\* matches of (\d+)\s*([dhms]), each with its two groups
RECURSIVE FindDurations(_, _)
FindDurations(s, i) ==
    IF i > Len(s) THEN <<>>
    ELSE IF s[i] \notin DigitChars THEN FindDurations(s, i + 1)
    ELSE LET j == RunEnd(s, i, DigitChars)
             k == RunEnd(s, j, {" "})
         IN  IF k <= Len(s) /\ s[k] \in DurationUnits
             THEN <<[num |-> SubSeq(s, i, j - 1), unit |-> s[k]]>>
                  \o FindDurations(s, k + 1)
             ELSE FindDurations(s, j)

\* a sum that stops after the first match
SumDurationsFirstOnly(matches) ==
    IF matches = <<>> THEN 0
    ELSE AtoiFrom(0, Head(matches).num) * UnitSeconds(Head(matches).unit)

RECURSIVE SumDurations(_)
SumDurations(matches) ==
    IF matches = <<>> THEN 0
    ELSE AtoiFrom(0, Head(matches).num) * UnitSeconds(Head(matches).unit)
         + SumDurations(Tail(matches))

parseDuration(s) ==
    LET matches == FindDurations(s, 1)
    IN  IF matches = <<>> THEN [total |-> 0, ok |-> FALSE]
        ELSE [total |-> SumDurations(matches), ok |-> TRUE]

\* a float64: its whole part and the digits of its fraction, without the
\* zeros at the end
Float(whole, fraction) ==
    [type |-> "float64", str |-> TrimDigits(fraction), num |-> whole]

\* the values strconv.ParseFloat gives for the texts NaN, Inf and Infinity
NaN == [type |-> "float64", str |-> <<"N", "a", "N">>, num |-> 0]

Inf(sign) == [type |-> "float64", str |-> <<"I", "n", "f">>,
              num |-> IF sign = "-" THEN -1 ELSE 1]

\* a float64 below zero: the sign is kept with the digits of the fraction
Negative(f) == IF f = Float(0, <<>>) THEN f ELSE [f EXCEPT !.str = <<"-">> \o @]

\* the texts of the infinite value, any case, behind an optional sign
InfTexts == {<<"i", "n", "f">>, <<"i", "n", "f", "i", "n", "i", "t", "y">>}

\* the sign of a number text ("" when it has none) and the text behind it
SignOf(s) == IF s # <<>> /\ s[1] \in {"+", "-"} THEN s[1] ELSE ""

Unsigned(s) == IF SignOf(s) = "" THEN s ELSE Tail(s)

\* a decimal mantissa: digits with an optional fraction ("1024", "3.14",
\* "7.", ".5")
Decimal(s) ==
    LET dot == IndexOf(s, ".")
        whole == IF dot = 0 THEN s ELSE SubSeq(s, 1, dot - 1)
        fraction == IF dot = 0 THEN <<>> ELSE SubSeq(s, dot + 1, Len(s))
    IN  /\ Len(whole) + Len(fraction) > 0
        /\ \A i \in 1..Len(whole) : whole[i] \in DigitChars
        /\ \A i \in 1..Len(fraction) : fraction[i] \in DigitChars

\* the error of strconv.ParseFloat(s, 64): nil for a signed decimal, for a
\* signed Inf or Infinity and for NaN, in any case; the texts here carry no
\* exponent, hexadecimal mantissa or underscore and stay in the range of a
\* float64
ParseFloatOK(s) ==
    \/ Decimal(Unsigned(s))
    \/ ToLower(Unsigned(s)) \in InfTexts
    \/ ToLower(s) = <<"n", "a", "n">>

ParseFloat(s) ==
    LET u == Unsigned(s)
        dot == IndexOf(u, ".")
        whole == IF dot = 0 THEN u ELSE SubSeq(u, 1, dot - 1)
        fraction == IF dot = 0 THEN <<>> ELSE SubSeq(u, dot + 1, Len(u))
    IN  IF ToLower(s) = <<"n", "a", "n">> THEN NaN
        ELSE IF ToLower(u) \in InfTexts THEN Inf(SignOf(s))
        ELSE IF SignOf(s) = "-" THEN Negative(Float(AtoiFrom(0, whole), fraction))
        ELSE Float(AtoiFrom(0, whole), fraction)

StatusWordsOneWithoutUp ==
    {<<"o", "k">>, <<"r", "u", "n", "n", "i", "n", "g">>,
     <<"a", "c", "t", "i", "v", "e">>, <<"o", "n", "l", "i", "n", "e">>,
     <<"r", "e", "a", "c", "h", "a", "b", "l", "e">>, <<"o", "p", "e", "n">>}

StatusWordsOne ==
    {<<"u", "p">>, <<"o", "k">>, <<"r", "u", "n", "n", "i", "n", "g">>,
     <<"a", "c", "t", "i", "v", "e">>, <<"o", "n", "l", "i", "n", "e">>,
     <<"r", "e", "a", "c", "h", "a", "b", "l", "e">>, <<"o", "p", "e", "n">>}

StatusWordsZero ==
    {<<"d", "o", "w", "n">>, <<"c", "r", "i", "t", "i", "c", "a", "l">>,
     <<"e", "r", "r", "o", "r">>, <<"o", "f", "f", "l", "i", "n", "e">>,
     <<"i", "n", "a", "c", "t", "i", "v", "e">>,
     <<"u", "n", "r", "e", "a", "c", "h", "a", "b", "l", "e">>,
     <<"c", "l", "o", "s", "e", "d">>}

StatusWordsHalf ==
    {<<"w", "a", "r", "n", "i", "n", "g">>, <<"d", "e", "g", "r", "a", "d", "e", "d">>,
     <<"p", "a", "u", "s", "e", "d">>}

HasSuffix(str, suffix) ==
    Len(str) >= Len(suffix)
    /\ SubSeq(str, Len(str) - Len(suffix) + 1, Len(str)) = suffix

\* ParseValueNum: the *float64 of a metric value, Null for nil
ParseValueNum(value) ==
    LET v == ToLower(TrimSpace(value))
        number == SubSeq(v, 1, Len(v) - 1)
    IN  IF v \in StatusWordsOne THEN Float(1, <<>>)
        ELSE IF v \in StatusWordsZero THEN Float(0, <<>>)
        ELSE IF v \in StatusWordsHalf THEN Float(0, <<"5">>)
        ELSE IF HasSuffix(v, <<"%">>) /\ ParseFloatOK(number) THEN ParseFloat(number)
        ELSE IF ParseFloatOK(v) THEN ParseFloat(v)
        ELSE IF parseDuration(v).ok THEN Float(parseDuration(v).total, <<>>)
        ELSE Null

formatValue(variable, format) ==
    LET v == variable.value
        asText == IF variable.type = "OctetString" THEN GoString(v.str)
                  ELSE GoString(SprintValue(v))
    IN  CASE format = "string" -> asText
          [] format = "timeticks" ->
                IF v.type = "uint32" THEN GoString(FormatTicks(v.num))
                ELSE GoString(SprintValue(v))
          [] format = "integer" ->
                IF v.type \in {"int", "uint", "int64", "uint64"} THEN GoNum("int", v.num)
                ELSE IF v.type = "bytes" /\ Len(v.str) > 0 THEN GoNum("int", Atoi(v.str))
                ELSE GoString(SprintValue(v))
          [] format \in {"counter", "gauge"} ->
                IF v.type \in {"uint", "uint32", "uint64", "int"} THEN v
                ELSE GoString(SprintValue(v))
          [] format = "physaddr" ->
                IF v.type = "bytes" /\ Len(v.str) = 6 THEN GoString(JoinMac(v.str))
                ELSE GoString(<<>>)
          [] format = "ifstatus" ->
                GoString(IfStatusName(IF v.type \in {"int", "uint", "uint32"}
                                      THEN v.num ELSE 0))
          [] OTHER -> asText

RECURSIVE ReplaceSpaces(_)
\* strings.ReplaceAll(s, " ", "_")
ReplaceSpaces(str) ==
    IF str = <<>> THEN <<>>
    ELSE <<IF Head(str) = " " THEN "_" ELSE Head(str)>> \o ReplaceSpaces(Tail(str))

ScalarMetric(oidDef, variable) ==
    [category |-> "snmp", name |-> oidDef.name,
     value |-> formatValue(variable, oidDef.format), type |-> "gauge",
     oid |-> oidDef.oid]

RECURSIVE ScalarMetrics(_, _)
\* querySNMP, scalar queries: answers maps an OID to the variables of the
\* reply; an OID the agent fails to answer is not in its domain
ScalarMetrics(oids, answers) ==
    IF oids = <<>> THEN <<>>
    ELSE LET oidDef == Head(oids)
             rest == ScalarMetrics(Tail(oids), answers)
         IN  IF oidDef.oid \notin DOMAIN answers \/ answers[oidDef.oid] = <<>> THEN rest
             ELSE IF ReplaceSpaces(oidDef.name) \in DOMAIN rest THEN rest
             ELSE (ReplaceSpaces(oidDef.name) :>
                      ScalarMetric(oidDef, answers[oidDef.oid][1])) @@ rest

\* strings.HasPrefix
HasPrefix(str, prefix) ==
    Len(str) >= Len(prefix) /\ SubSeq(str, 1, Len(prefix)) = prefix

\* strings.TrimPrefix
TrimPrefix(str, prefix) ==
    IF HasPrefix(str, prefix) THEN SubSeq(str, Len(prefix) + 1, Len(str)) ELSE str

\* walkTable, one PDU of the walk added to rows (row index -> sub-OID -> PDU)
AddPduToRows(rows, pdu, table) ==
    LET base == TrimPrefix(table.base_oid, <<".">>)
        oid == TrimPrefix(pdu.name, <<".">>)
        suffix == TrimPrefix(TrimPrefix(oid, base), <<".">>)
        dot == IndexOf(suffix, ".")
        colSubOID == SubSeq(suffix, 1, dot - 1)
        rowIndex == SubSeq(suffix, dot + 1, Len(suffix))
        wantedCols == {table.columns[i].sub_oid : i \in 1..Len(table.columns)}
    IN  IF ~HasPrefix(oid, base) \/ dot = 0 \/ colSubOID \notin wantedCols THEN rows
        ELSE IF rowIndex \in DOMAIN rows
             THEN [rows EXCEPT ![rowIndex] = (colSubOID :> pdu) @@ @]
             ELSE (rowIndex :> (colSubOID :> pdu)) @@ rows

RECURSIVE WalkRows(_, _, _)
WalkRows(rows, pdus, table) ==
    IF pdus = <<>> THEN rows
    ELSE WalkRows(AddPduToRows(rows, Head(pdus), table), Tail(pdus), table)

\* walkTable: the PDUs of the walk grouped by row index
walkTable(pdus, table) == WalkRows(<<>>, pdus, table)

\* the column definition of a sub-OID: the last one defined for it
ColBySubOID(table, subOID) ==
    LET is == {i \in 1..Len(table.columns) : table.columns[i].sub_oid = subOID}
    IN  table.columns[CHOOSE i \in is : \A j \in is : j <= i]

IfaceField(role) ==
    CASE role = "name" -> "name"
      [] role = "alias" -> "alias"
      [] role = "type" -> "type"
      [] role = "speed" -> "speed"
      [] role = "mac" -> "mac_address"
      [] role = "admin_status" -> "admin_status"
      [] OTHER -> "oper_status"

IfaceRoles == {"name", "alias", "type", "speed", "mac", "admin_status", "oper_status"}

\* processInterfaceTable, one column PDU of a row; st is {iface, ifName, metrics}
ProcessColumn(st, rowIndex, col, pdu) ==
    LET value == formatValue(pdu, col.format)
    IN  IF col.role \in IfaceRoles
        THEN [st EXCEPT
                 !.iface = (IfaceField(col.role) :> value) @@ @,
                 !.ifName = IF col.role = "name" /\ value.type = "string" /\ value.str # <<>>
                            THEN value.str ELSE @]
        ELSE IF col.role = "metric"
        THEN [st EXCEPT
                 !.metrics =
                    ((col.name \o <<"_">> \o rowIndex) :>
                        [category |-> "snmp", name |-> col.name,
                         value |-> GoString(SprintValue(value)), type |-> "counter",
                         oid |-> pdu.name, instance |-> GoString(st.ifName)]) @@ @]
        ELSE st

RECURSIVE ProcessColumns(_, _, _, _, _)
\* the loop over a row's PDUs, in the order the map iteration takes
ProcessColumns(st, rowIndex, colPDUs, table, order) ==
    IF order = <<>> THEN st
    ELSE ProcessColumns(
            ProcessColumn(st, rowIndex, ColBySubOID(table, Head(order)),
                          colPDUs[Head(order)]),
            rowIndex, colPDUs, table, Tail(order))

\* processInterfaceTable, one row
ProcessRow(metrics, rowIndex, colPDUs, table, order) ==
    ProcessColumns([iface |-> ("if_index" :> GoString(rowIndex)), ifName |-> rowIndex,
                    metrics |-> metrics],
                   rowIndex, colPDUs, table, order)

RECURSIVE ProcessNamedRows(_, _, _, _, _)
\* a loop over the rows that skips the rows without a name column
ProcessNamedRows(acc, rows, table, rowOrder, colOrder) ==
    IF rowOrder = <<>> THEN acc
    ELSE LET r == Head(rowOrder)
             st == ProcessRow(acc.metrics, r, rows[r], table, colOrder[r])
         IN  ProcessNamedRows(
                [interfaces |-> IF "name" \in DOMAIN st.iface
                                THEN Append(acc.interfaces, st.iface) ELSE acc.interfaces,
                 metrics |-> st.metrics],
                rows, table, Tail(rowOrder), colOrder)

RECURSIVE ProcessRows(_, _, _, _, _)
\* the loop over the rows; acc is {interfaces, metrics}; rowOrder lists the
\* row indexes and colOrder[r] the sub-OIDs of row r in iteration order
ProcessRows(acc, rows, table, rowOrder, colOrder) ==
    IF rowOrder = <<>> THEN acc
    ELSE LET r == Head(rowOrder)
             st == ProcessRow(acc.metrics, r, rows[r], table, colOrder[r])
         IN  ProcessRows([interfaces |-> Append(acc.interfaces, st.iface),
                          metrics |-> st.metrics],
                         rows, table, Tail(rowOrder), colOrder)

\* processInterfaceTable
processInterfaceTable(rows, table, rowOrder, colOrder) ==
    ProcessRows([interfaces |-> <<>>, metrics |-> <<>>], rows, table, rowOrder, colOrder)

\* the orders a map iteration can take: every arrangement of the keys
Orders(S) == {o \in [1..Cardinality(S) -> S] : \A i, j \in DOMAIN o : i # j => o[i] # o[j]}

RECURSIVE TableResults(_, _, _, _, _)
\* querySNMP, table walks: walks maps a base OID to the PDUs of its walk (a
\* failed walk is not in its domain); orders[i] is the iteration order of
\* table i; acc is {interfaces, metrics}
TableResults(acc, tables, i, walks, orders) ==
    IF i > Len(tables) THEN acc
    ELSE LET table == tables[i]
             out == processInterfaceTable(walkTable(walks[table.base_oid], table), table,
                                          orders[i].rowOrder, orders[i].colOrder)
         IN  IF table.base_oid \notin DOMAIN walks \/ table.type # "interface"
             THEN TableResults(acc, tables, i + 1, walks, orders)
             ELSE TableResults([interfaces |-> acc.interfaces \o out.interfaces,
                                metrics |-> out.metrics @@ acc.metrics],
                               tables, i + 1, walks, orders)

\* querySNMP after a successful connect
querySNMP(deviceDef, answers, walks, orders) ==
    LET out == TableResults([interfaces |-> <<>>,
                             metrics |-> ScalarMetrics(deviceDef.oids, answers)],
                            deviceDef.tables, 1, walks, orders)
    IN  [kind |-> "ok", metrics |-> out.metrics, interfaces |-> out.interfaces]

(***************************************************************************)
(* The local collector (localPlugin.OnCollect).                            *)
(***************************************************************************)
Pad2(n) == IF n < 10 THEN <<"0">> \o Sprintf_d(n) ELSE Sprintf_d(n)

\* getUptime: "%d days %02d:%02d:%02d" or "%02d:%02d:%02d"
UptimeString(uptimeSeconds) ==
    LET days == uptimeSeconds \div 86400
        clock == Pad2((uptimeSeconds \div 3600) % 24) \o <<":">> \o
                 Pad2((uptimeSeconds \div 60) % 60) \o <<":">> \o
                 Pad2(uptimeSeconds % 60)
    IN  IF days > 0 THEN Sprintf_d(days) \o <<" ", "d", "a", "y", "s", " ">> \o clock
        ELSE clock

errorMetric(label, category) ==
    [type |-> "text", category |-> category, label |-> label,
     value |-> GoString(<<"E", "r", "r", "o", "r">>)]

\* localPlugin.OnCollect for the readings of the machine: uptime in seconds,
\* memory in MB, swap in percent; an absent reading is one that failed
LocalResult(readings) ==
    LET uptime ==
           IF "uptime" \in DOMAIN readings
           THEN [type |-> "text", category |-> "system", label |-> <<"U", "p">>,
                 value |-> GoString(UptimeString(readings.uptime))]
           ELSE errorMetric(<<"U", "p">>, "system")
        memory ==
           IF "memTotal" \in DOMAIN readings
           THEN (<<"m", "t">> :>
                    [name |-> <<"T", "M">>, label |-> <<"T">>,
                     value |-> GoNum("uint64", readings.memTotal),
                     type |-> "text", category |-> "memory"]) @@
                (<<"m", "f">> :>
                    [name |-> <<"F", "M">>, label |-> <<"F">>,
                     value |-> GoNum("uint64", readings.memFree),
                     type |-> "text", category |-> "memory"]) @@
                (<<"s", "w">> :>
                    [name |-> <<"S", "w">>, label |-> <<"S">>,
                     value |-> GoNum("float64", readings.swap),
                     type |-> "percent", category |-> "memory"])
           ELSE (<<"m", "t">> :> errorMetric(<<"T", "M">>, "memory"))
        load ==
           IF "load" \in DOMAIN readings
           THEN [category |-> "system", type |-> "histogram", label |-> <<"L">>,
                 value |-> GoOther("[]int")]
           ELSE errorMetric(<<"L">>, "system")
    IN  [kind |-> "ok",
         metrics |-> (<<"u", "p">> :> uptime) @@ memory @@ (<<"l", "d">> :> load),
         interfaces |-> <<>>]

(***************************************************************************)
(* The SSH collector (sshCollectPlugin.parseCollection): the metrics of a   *)
(* single-column command are keyed by what the device printed.             *)
(***************************************************************************)
\* CommandDef; the definitions of the model have no replacements
CommandDef(format, category, delimiter) ==
    [format |-> format, category |-> category, delimiter |-> delimiter]

\* parseCollection, format single-column: the metric of one line that holds
\* the delimiter, under its key
LineMetric(line, cmdDef) ==
    LET delimiter == IF cmdDef.delimiter = "" THEN ":" ELSE cmdDef.delimiter
        i == IndexOf(line, delimiter)
        key == TrimSpace(Trim(SubSeq(line, 1, i - 1), {" ", "(", "[", "]", ")"}))
        value == Trim(SubSeq(line, i + 1, Len(line)), {" ", "(", "[", "]", ")"})
    IN  IF i = 0 THEN <<>>
        ELSE key :> [type |-> "text", label |-> key, value |-> GoString(value),
                     name |-> key, category |-> cmdDef.category]

RECURSIVE LineMetrics(_, _, _)
\* parseCollection: the loop over the lines; a later line replaces an
\* earlier one with the same key
LineMetrics(metrics, lines, cmdDef) ==
    IF lines = <<>> THEN metrics
    ELSE LineMetrics(LineMetric(Head(lines), cmdDef) @@ metrics, Tail(lines), cmdDef)

\* parseCollection: the output without its first and last line
BodyLines(output) ==
    LET lines == Split(output, "\n")
    IN  IF Len(lines) > 2 THEN SubSeq(lines, 2, Len(lines) - 1) ELSE lines

RECURSIVE ParseCommands(_, _, _, _)
ParseCommands(metrics, names, results, def) ==
    IF names = <<>> THEN metrics
    ELSE LET name == Head(names)
         IN  ParseCommands(
                IF name \in DOMAIN def.info /\ def.info[name].format = "single-column"
                THEN LineMetrics(metrics, BodyLines(results[name]), def.info[name])
                ELSE metrics,
                Tail(names), results, def)

\* parseCollection: the collections of the text commands are not read by
\* the engine and are left out
parseCollection(results, def) ==
    [kind |-> "ok", metrics |-> ParseCommands(<<>>, SeqOf(DOMAIN results), results, def),
     interfaces |-> <<>>]

(***************************************************************************)
(* The machine and the SNMP agent the collectors read in a collection run. *)
(***************************************************************************)
LocalReadings == [uptime |-> 90061, memTotal |-> 2048, memFree |-> 512, swap |-> 7, load |-> 1]

ColDescr == [sub_oid |-> <<"2">>, name |-> <<"d">>, format |-> "string", role |-> "name"]

ColOper == [sub_oid |-> <<"8">>, name |-> <<"o">>, format |-> "ifstatus", role |-> "oper_status"]

ColInOctets == [sub_oid |-> <<"9">>, name |-> <<"i", "n">>, format |-> "counter", role |-> "metric"]

\* an ifTable definition: description, operational status, input counter
IfTable ==
    [base_oid |-> <<"b">>, type |-> "interface", columns |-> <<ColDescr, ColOper, ColInOctets>>]

\* plugins/snmp/devices/<type>.json
DeviceDef ==
    [oids |-> <<[oid |-> <<"u">>, name |-> <<"u", "p">>, format |-> "timeticks"],
                [oid |-> <<"n">>, name |-> <<"i", "f", " ", "n">>, format |-> "integer"]>>,
     tables |-> <<IfTable>>]

CellName(col, row) == <<"b", ".">> \o col \o <<".">> \o row

\* the agent: an uptime of one day and a second, two interfaces, both
\* described as "e"
AgentAnswers ==
    (<<"u">> :> <<Pdu(<<"u">>, "TimeTicks", GoNum("uint32", 8640100))>>) @@
    (<<"n">> :> <<Pdu(<<"n">>, "Integer", GoNum("int", 2))>>)

AgentWalks ==
    <<"b">> :>
       <<Pdu(CellName(<<"2">>, <<"1">>), "OctetString", GoBytes(<<"e">>)),
         Pdu(CellName(<<"2">>, <<"2">>), "OctetString", GoBytes(<<"e">>)),
         Pdu(CellName(<<"8">>, <<"1">>), "Integer", GoNum("int", 1)),
         Pdu(CellName(<<"8">>, <<"2">>), "Integer", GoNum("int", 2)),
         Pdu(CellName(<<"9">>, <<"1">>), "Counter32", GoNum("uint", 5)),
         Pdu(CellName(<<"9">>, <<"2">>), "Counter32", GoNum("uint", 6))>>

\* two of the orders the map iterations of processInterfaceTable can take
NameFirst ==
    <<[rowOrder |-> <<<<"1">>, <<"2">>>>,
       colOrder |-> [r \in {<<"1">>, <<"2">>} |-> <<<<"2">>, <<"8">>, <<"9">>>>]]>>

MetricFirst ==
    <<[rowOrder |-> <<<<"2">>, <<"1">>>>,
       colOrder |-> [r \in {<<"1">>, <<"2">>} |-> <<<<"9">>, <<"8">>, <<"2">>>>]]>>

\* the SSH device definition: one single-column command and one text command
SshDeviceDef ==
    [info |-> (<<"i">> :> CommandDef("single-column", "system", ""))
              @@ (<<"v">> :> CommandDef("text", "system", ""))]

\* what the device printed: the echoed command, the lines "__k:v" and
\* "a: (b)", and the prompt
SshOutputs ==
    (<<"i">> :> <<"i", "\n", "_", "_", "k", ":", "v", "\n", "a", ":", " ", "(", "b", ")",
                  "\n", "#">>)
    @@ (<<"v">> :> <<"v", "\n", "1", "\n", "#">>)

(***************************************************************************)
(* Plugin results.  A metric is a map from field name to value; a result   *)
(* is {metrics: label -> metric, interfaces: [...]}.                       *)
(***************************************************************************)
Up == <<"u", "p">>

Down == <<"d", "o", "w", "n">>

StatusMetric(category, label, status) ==
    [category |-> category, name |-> label, value |-> GoString(status), type |-> "status"]

OkResult(label, metric) ==
    [kind |-> "ok", metrics |-> (label :> metric), interfaces |-> <<>>]

\* What the registered collector returns for an action, standing for the
\* behaviours a Plugin.OnCollect can show: a result, an error (with a
\* result the caller must ignore), a nil result, or a panic.
OnCollect(pluginKey, action) ==
    CASE action = <<"p">> -> OkResult(<<"p", "i", "n", "g">>, StatusMetric("network", <<"p", "i", "n", "g">>, Up))
      [] action = <<"q">> -> OkResult(<<"U", "R", "L">>, StatusMetric("Web", <<"U", "R", "L">>, Down))
      [] action = <<"r">> -> OkResult(<<"p", "i", "n", "g">>, StatusMetric("network", <<"p", "i", "n", "g">>, Down))
      [] action = <<"m">> -> LocalResult(LocalReadings)
      [] action = <<"t">> -> querySNMP(DeviceDef, AgentAnswers, AgentWalks, NameFirst)
      [] action = <<"u">> -> querySNMP(DeviceDef, AgentAnswers, AgentWalks, MetricFirst)
      \* an SSH task whose credential resolves and whose session opens
      [] action = <<"c">> -> parseCollection(SshOutputs, SshDeviceDef)
      [] action = <<"0">> -> [kind |-> "nil", metrics |-> <<>>, interfaces |-> <<>>]
      [] action = <<"x">> -> [kind |-> "panic", metrics |-> <<>>, interfaces |-> <<>>]
      [] OTHER -> [kind |-> "err",
                   metrics |-> (<<"p", "a", "r", "t">> :> StatusMetric("network", <<"p", "a", "r", "t">>, Down)),
                   interfaces |-> <<>>]

\* a collectTask that forgets the return after an error
TaskSendsAfterError(kind) == kind \in {"ok", "err"}

\* collectTask: a result is sent only when OnCollect returned no error and a
\* non-nil result
TaskSends(kind) == kind = "ok"

(***************************************************************************)
(* The SQL store (sqlStore).  The database is {schema, migrations, hosts,  *)
(* metrics, interfaces, statements, clock, dialect}: the tables, indexes   *)
(* and columns that exist, the rows of the four tables, the migration      *)
(* statements executed so far, the time NOW() returns and the dialect of   *)
(* the server.                                                             *)
(***************************************************************************)
NoRows == <<>>

\* dialectSQLite, dialectPostgres, dialectMySQL
Dialects == {"sqlite", "postgres", "mysql"}

EmptyDatabase ==
    [schema |-> {}, migrations |-> NoRows, hosts |-> NoRows, metrics |-> NoRows,
     interfaces |-> NoRows, statements |-> <<>>, clock |-> 0, dialect |-> "sqlite"]

\* the rows of a table that satisfy a condition, as indexes
HostRowsOf(db, key) == {i \in 1..Len(db.hosts) : db.hosts[i].key = key}

\* INSERT INTO hosts ... ON CONFLICT(key) DO UPDATE SET name, address,
\* last_seen: ids are handed out in insertion order
UpsertHost(db, key, name, address) ==
    IF HostRowsOf(db, key) = {}
    THEN [db EXCEPT !.hosts =
             Append(@, [id |-> Len(@) + 1, key |-> key, name |-> name, address |-> address,
                        first_seen |-> db.clock, last_seen |-> db.clock])]
    ELSE [db EXCEPT !.hosts =
             [i \in 1..Len(@) |->
                 IF @[i].key = key
                 THEN [@[i] EXCEPT !.name = name, !.address = address,
                                   !.last_seen = db.clock]
                 ELSE @[i]]]

\* SELECT id FROM hosts WHERE key = ?
SelectHostId(db, key) == db.hosts[CHOOSE i \in HostRowsOf(db, key) : TRUE].id

\* ensureHost with the mutex held; fault is what the database does to this
\* call: "none", "upsert" (the upsert fails) or "select" (the id query fails)
ensureHost(db, hostCache, key, name, address, fault) ==
    IF key \in DOMAIN hostCache
    THEN [db |-> db, hostCache |-> hostCache, ok |-> TRUE, id |-> hostCache[key],
          touched |-> FALSE]
    ELSE IF fault = "upsert"
    THEN [db |-> db, hostCache |-> hostCache, ok |-> FALSE, id |-> 0, touched |-> TRUE]
    ELSE IF fault = "select"
    THEN [db |-> UpsertHost(db, key, name, address), hostCache |-> hostCache,
          ok |-> FALSE, id |-> 0, touched |-> TRUE]
    ELSE LET db1 == UpsertHost(db, key, name, address)
         IN  [db |-> db1, hostCache |-> (key :> SelectHostId(db1, key)) @@ hostCache,
              ok |-> TRUE, id |-> SelectHostId(db1, key), touched |-> TRUE]

FaultOf(faults, key) == IF key \in DOMAIN faults.hosts THEN faults.hosts[key] ELSE "none"

RECURSIVE ResolveHostIDs(_, _, _)
\* "Resolve all host IDs": st is {db, hostCache, hostIDs}
ResolveHostIDs(st, records, faults) ==
    IF records = <<>> THEN st
    ELSE LET r == Head(records)
             e == ensureHost(st.db, st.hostCache, r.host_key, r.host_name, r.host_address,
                             FaultOf(faults, r.host_key))
         IN  IF r.host_key \in DOMAIN st.hostIDs
             THEN ResolveHostIDs(st, Tail(records), faults)
             ELSE ResolveHostIDs(
                     [db |-> e.db, hostCache |-> e.hostCache,
                      hostIDs |-> IF e.ok THEN (r.host_key :> e.id) @@ st.hostIDs
                                  ELSE st.hostIDs],
                     Tail(records), faults)

\* the row WriteBatch inserts for a record
MetricRow(hostID, r) ==
    [host_id |-> hostID, plugin |-> r.plugin, name |-> r.name, category |-> r.category,
     metric_type |-> r.metric_type, value |-> r.value,
     instance |-> IF r.instance # <<>> THEN GoString(r.instance) ELSE Null,
     extra |-> r.extra, collected_at |-> r.collected_at]

\* a statement the server refuses inside a transaction: SQLite and MySQL go
\* on with the transaction; PostgreSQL marks it failed, refuses every
\* later statement, and Commit rolls back and returns an error
TxFails(dialect) == dialect = "postgres"

\* the statements of the loop that the server refuses: the records whose
\* host was resolved and whose statement fails
Refused(records, hostIDs, faults) ==
    {i \in 1..Len(records) : records[i].host_key \in DOMAIN hostIDs /\ i \in faults.inserts}

RECURSIVE InsertMetrics(_, _, _, _, _)
\* the insert loop of WriteBatch; a failed insert is logged and skipped
InsertMetrics(rows, records, i, hostIDs, faults) ==
    IF i > Len(records) THEN rows
    ELSE InsertMetrics(
            IF records[i].host_key \in DOMAIN hostIDs /\ i \notin faults.inserts
            THEN Append(rows, MetricRow(hostIDs[records[i].host_key], records[i]))
            ELSE rows,
            records, i + 1, hostIDs, faults)

\* WriteBatch once the hosts are resolved (st): Begin, Prepare, the insert
\* loop and Commit
BatchTx(st, records, faults, dialect) ==
    IF faults.tx \in {"begin", "prepare", "commit"}
    THEN [db |-> st.db, hostCache |-> st.hostCache, err |-> TRUE]
    ELSE IF TxFails(dialect) /\ Refused(records, st.hostIDs, faults) # {}
    THEN [db |-> st.db, hostCache |-> st.hostCache, err |-> TRUE]
    ELSE [db |-> [st.db EXCEPT !.metrics =
                     InsertMetrics(@, records, 1, st.hostIDs, faults)],
          hostCache |-> st.hostCache, err |-> FALSE]

\* WriteBatch: gives {db, hostCache, err}
WriteBatch(db, hostCache, records, faults) ==
    IF records = <<>> THEN [db |-> db, hostCache |-> hostCache, err |-> FALSE]
    ELSE BatchTx(ResolveHostIDs([db |-> db, hostCache |-> hostCache, hostIDs |-> <<>>],
                                records, faults),
                 records, faults, db.dialect)

\* v, ok := iface[key].(int)
AsInt(m, key) == IF key \in DOMAIN m /\ m[key].type = "int" THEN m[key].num ELSE 0

\* *int64 of InterfaceRecord.Speed: nil unless the value is a Go integer
SpeedOf(iface) ==
    IF "speed" \in DOMAIN iface /\ iface["speed"].type \in {"uint", "uint32", "uint64", "int"}
    THEN GoNum("int64", iface["speed"].num) ELSE Null

\* InterfaceListToRecords, one interface map
InterfaceRecord(hostKey, hostName, hostAddress, iface) ==
    [host_key |-> hostKey, host_name |-> hostName, host_address |-> hostAddress,
     if_index |-> Atoi(AsString(iface, "if_index")),
     name |-> AsString(iface, "name"), alias |-> AsString(iface, "alias"),
     type |-> AsInt(iface, "type"), speed |-> SpeedOf(iface),
     mac_address |-> AsString(iface, "mac_address"),
     admin_status |-> AsString(iface, "admin_status"),
     oper_status |-> AsString(iface, "oper_status")]

InterfaceListToRecords(hostKey, hostName, hostAddress, ifaces) ==
    [i \in 1..Len(ifaces) |-> InterfaceRecord(hostKey, hostName, hostAddress, ifaces[i])]

InterfaceRowsOf(rows, hostID, ifIndex) ==
    {i \in 1..Len(rows) : rows[i].host_id = hostID /\ rows[i].if_index = ifIndex}

\* a plain INSERT INTO interfaces, without the conflict clause
InsertInterfaceRow(rows, hostID, r, now) ==
    Append(rows,
           [host_id |-> hostID, if_index |-> r.if_index, name |-> r.name,
            alias |-> r.alias, type |-> r.type, speed |-> r.speed,
            mac_address |-> r.mac_address, admin_status |-> r.admin_status,
            oper_status |-> r.oper_status, first_seen |-> now, last_seen |-> now])

\* INSERT INTO interfaces ... ON CONFLICT(host_id, if_index) DO UPDATE SET
\* the metadata columns and last_seen
UpsertInterfaceRow(rows, hostID, r, now) ==
    IF InterfaceRowsOf(rows, hostID, r.if_index) = {}
    THEN Append(rows,
                [host_id |-> hostID, if_index |-> r.if_index, name |-> r.name,
                 alias |-> r.alias, type |-> r.type, speed |-> r.speed,
                 mac_address |-> r.mac_address, admin_status |-> r.admin_status,
                 oper_status |-> r.oper_status, first_seen |-> now, last_seen |-> now])
    ELSE [i \in 1..Len(rows) |->
             IF i \in InterfaceRowsOf(rows, hostID, r.if_index)
             THEN [rows[i] EXCEPT !.name = r.name, !.alias = r.alias, !.type = r.type,
                                  !.speed = r.speed, !.mac_address = r.mac_address,
                                  !.admin_status = r.admin_status,
                                  !.oper_status = r.oper_status, !.last_seen = now]
             ELSE rows[i]]

RECURSIVE UpsertRows(_, _, _, _, _, _)
\* the upsert loop of UpsertInterfaces; a failed upsert is logged and
\* skipped
UpsertRows(rows, records, i, hostIDs, faults, now) ==
    IF i > Len(records) THEN rows
    ELSE UpsertRows(
            IF records[i].host_key \in DOMAIN hostIDs /\ i \notin faults.inserts
            THEN UpsertInterfaceRow(rows, hostIDs[records[i].host_key], records[i], now)
            ELSE rows,
            records, i + 1, hostIDs, faults, now)

\* UpsertInterfaces once the hosts are resolved (st): Begin, Prepare, the
\* upsert loop and Commit
UpsertTx(st, records, faults, dialect, now) ==
    IF faults.tx \in {"begin", "prepare", "commit"}
    THEN [db |-> st.db, hostCache |-> st.hostCache, err |-> TRUE]
    ELSE IF TxFails(dialect) /\ Refused(records, st.hostIDs, faults) # {}
    THEN [db |-> st.db, hostCache |-> st.hostCache, err |-> TRUE]
    ELSE [db |-> [st.db EXCEPT !.interfaces =
                     UpsertRows(@, records, 1, st.hostIDs, faults, now)],
          hostCache |-> st.hostCache, err |-> FALSE]

\* UpsertInterfaces: gives {db, hostCache, err}
UpsertInterfaces(db, hostCache, records, faults) ==
    IF records = <<>> THEN [db |-> db, hostCache |-> hostCache, err |-> FALSE]
    ELSE UpsertTx(ResolveHostIDs([db |-> db, hostCache |-> hostCache, hostIDs |-> <<>>],
                                 records, faults),
                  records, faults, db.dialect, db.clock)

Statement(kind, object) == [kind |-> kind, object |-> object]

v1Schema ==
    <<Statement("table", "hosts"), Statement("table", "metrics"),
      Statement("index", "idx_metrics_host_time"),
      Statement("index", "idx_metrics_host_name")>>

v2Schema == <<Statement("column", "metrics.extra")>>

v3Schema ==
    <<Statement("column", "metrics.instance"), Statement("table", "interfaces"),
      Statement("index", "idx_interfaces_host")>>

\* migrations(): version, statements
migrations ==
    <<[version |-> 1, up |-> v1Schema], [version |-> 2, up |-> v2Schema],
      [version |-> 3, up |-> v3Schema]>>

\* the table an index or a column is added to: ON <table>, ALTER TABLE
\* <table>; "" for a CREATE TABLE
TableOf(stmt) ==
    CASE stmt.object \in {"idx_metrics_host_time", "idx_metrics_host_name",
                          "metrics.extra", "metrics.instance"} -> "metrics"
      [] stmt.object = "idx_interfaces_host" -> "interfaces"
      [] OTHER -> ""

\* CREATE TABLE IF NOT EXISTS goes through when the table is there; CREATE
\* INDEX and ALTER TABLE ADD COLUMN fail when the object is there or the
\* table is missing
StatementFails(schema, stmt) ==
    \/ stmt.kind # "table" /\ stmt.object \in schema
    \/ stmt.object \notin schema /\ TableOf(stmt) # "" /\ TableOf(stmt) \notin schema

AppliedVersions(db) == {db.migrations[i].version : i \in 1..Len(db.migrations)}

\* recordMigration / recordMigrationTx: version is the primary key of
\* schema_migrations; gives {db, err}
recordMigration(db, version) ==
    IF version \in AppliedVersions(db) THEN [db |-> db, err |-> TRUE]
    ELSE [db |-> [db EXCEPT !.migrations = Append(@, [version |-> version])],
          err |-> FALSE]

RECURSIVE ExecStatements(_, _, _, _)
\* the statements of one migration inside its transaction; st is {db, err};
\* failAt is the index of a statement the database refuses, 0 for none
ExecStatements(st, up, k, failAt) ==
    IF k > Len(up) \/ st.err THEN st
    ELSE LET logged == [st.db EXCEPT !.statements = Append(@, up[k])]
         IN  IF k = failAt \/ StatementFails(st.db.schema, up[k])
             THEN [db |-> logged, err |-> TRUE]
             ELSE ExecStatements(
                     [db |-> [logged EXCEPT !.schema = @ \cup {up[k].object}],
                      err |-> FALSE],
                     up, k + 1, failAt)

\* schemaExists: the hosts table is there and the query for it went through
schemaExists(db, queryFails) == ~queryFails /\ "hosts" \in db.schema

\* tx.Rollback after tx.Exec of CREATE TABLE, CREATE INDEX or ALTER TABLE:
\* SQLite and PostgreSQL undo the statements of the transaction; on MySQL
\* each of these statements commits on its own and stays
RollbackUndoes(dialect) == dialect # "mysql"

\* applyMigration: a failed transaction is rolled back, the statements it
\* ran stay in the log
applyMigration(db, m, failAt, queryFails) ==
    IF m.version = 1 /\ schemaExists(db, queryFails)
    THEN recordMigration(db, m.version)
    ELSE LET st == ExecStatements([db |-> db, err |-> FALSE], m.up, 1, failAt)
             rec == recordMigration(st.db, m.version)
         IN  IF st.err \/ rec.err
             THEN [db |-> IF RollbackUndoes(db.dialect)
                          THEN [db EXCEPT !.statements = st.db.statements]
                          ELSE st.db,
                   err |-> TRUE]
             ELSE rec

RECURSIVE ApplyAll(_, _, _, _)
\* a migrate that applies every migration, whatever schema_migrations holds
ApplyAll(st, applied, i, fault) ==
    IF i > Len(migrations) \/ st.err THEN st
    ELSE ApplyAll(
            applyMigration(st.db, migrations[i],
                           IF fault.version = migrations[i].version
                           THEN fault.statement ELSE 0,
                           fault.query),
            applied, i + 1, fault)

RECURSIVE ApplyPending(_, _, _, _)
\* "Apply pending migrations": applied is what schema_migrations held when
\* migrate read it; fault is {version, statement}
ApplyPending(st, applied, i, fault) ==
    IF i > Len(migrations) \/ st.err THEN st
    ELSE IF migrations[i].version \in applied THEN ApplyPending(st, applied, i + 1, fault)
    ELSE ApplyPending(
            applyMigration(st.db, migrations[i],
                           IF fault.version = migrations[i].version
                           THEN fault.statement ELSE 0,
                           fault.query),
            applied, i + 1, fault)

\* migrate: gives {db, err}
migrate(db, fault) ==
    IF fault.version = 0 /\ fault.statement # 0
    THEN [db |-> db, err |-> TRUE]
    ELSE LET tracked == [db EXCEPT !.schema = @ \cup {"schema_migrations"}]
         IN  ApplyPending([db |-> tracked, err |-> FALSE], AppliedVersions(tracked), 1, fault)

NoMigrationFault == [version |-> 0, statement |-> 0, query |-> FALSE]

\* a database on which sqlStore was opened once, without failure
OpenedDatabase == migrate(EmptyDatabase, NoMigrationFault).db

\* a database from before the versioning: the v1 schema, no tracker table
LegacyDatabase ==
    [EmptyDatabase EXCEPT !.schema = {v1Schema[i].object : i \in 1..Len(v1Schema)}]

NoFaults == [hosts |-> <<>>, tx |-> "none", inserts |-> {}]

(***************************************************************************)
(* collectHost: the task list, built from the typed collect list and the   *)
(* two fallback caches, deduplicated by metric in the fallback loops.      *)
(***************************************************************************)
RECURSIVE TypedTasks(_)
TypedTasks(collect) ==
    IF collect = <<>> THEN <<>>
    ELSE LET t == Head(collect)
             m == TrimSpace(t.metric)
         IN  IF m = <<>> THEN TypedTasks(Tail(collect))
             ELSE <<CollectTask(m, t.credentials)>> \o TypedTasks(Tail(collect))

MetricsOf(tasks) == {tasks[i].metric : i \in 1..Len(tasks)}

RECURSIVE MergeRaw(_, _)
MergeRaw(tasks, raw) ==
    IF raw = <<>> THEN tasks
    ELSE LET mm == Head(raw)
             m == TrimSpace(mm.metric)
         IN  IF m = <<>> \/ m \in MetricsOf(tasks) THEN MergeRaw(tasks, Tail(raw))
             ELSE MergeRaw(
                    Append(tasks,
                           CollectTask(m, IF mm.hasCred THEN TrimSpace(mm.cred) ELSE NoStr)),
                    Tail(raw))

CacheGet(cache, k) == IF k \in DOMAIN cache THEN cache[k] ELSE <<>>

BuildTasks(hostName, host, byKey, byAddr) ==
    MergeRaw(MergeRaw(TypedTasks(host.collect), CacheGet(byKey, hostName)),
             CacheGet(byAddr, TrimSpace(host.address)))

(***************************************************************************)
(* State of one collection run (collectionPlugin.collectData).             *)
(***************************************************************************)
VARIABLES
    pc,               \* position of collectData
    configFile,       \* data/config.json: host key -> {address, name, collect}
    perceptionFile,   \* data/perception.json: {exists, hosts}
    hosts,            \* p.config.Hosts
    rawCollect,       \* p.rawCollect
    rawCollectByAddr, \* p.rawCollectByAddr
    merged,           \* whether the perception merge loop ran
    hpc,              \* position of each collectHost worker
    tasks,            \* the task list of each host worker
    tpc,              \* position of each collectTask worker
    taskResultsChan,  \* per host: the buffered channel of task results
    taskChanClosed,   \* per host: close(taskResultsChan) was called
    taskWg,           \* per host: the counter of taskWg
    hostMetrics,      \* per host: the merged label -> metric map
    hostInterfaces,   \* per host: the concatenated interface lists
    resultsChan,      \* the buffered channel of host results
    resultsClosed,    \* close(resultsChan) was called
    wg,               \* the counter of wg
    finalResults,     \* host key -> host data
    snapshot,         \* data/collection.json: {written, content}
    db,               \* the database behind the store
    hostCache,        \* sqlStore.hostCache: host key -> id
    storeLog,         \* what writeToStore did: {attached, batch, interfaces}
    storeCall,        \* store run: the last call on the Store and its inputs
    callers,          \* ensureHost run: the concurrent calls, {pc, key, fault, ...}
    mu,               \* ensureHost run: the caller that holds sqlStore.mu, 0 for none
    session,          \* WaitFor run: the call, its reader goroutine and the stdout
    tableWalk,        \* table run: the PDUs of a walk, the rows and the result
    ticksRun,         \* the timeticks value being formatted and parsed back
    mailRun,          \* mail command run: the action, the processes run so far and the error
    probeRun,         \* network probe run: the options, the listening ports and the result
    valueRun,         \* record run: a metric map or a detection list and the records built from it
    shell,            \* shell run: the device's stdout, the pipe and the consecutive WaitFor calls
    sshRun,           \* SSH collection run: one sshCollectPlugin.OnCollect
    ifaceRun,         \* interface run: the interface records of one SNMP task
    normIn,           \* normalization run: a hosts[*].collect value
    normState,        \* normalization run: "raw", "loaded" or "failed"
    normOut,          \* normalization run: the decoded []CollectTask
    credIn,           \* credential run: the task's credential reference
    credState,        \* credential run: "task", "options", "connected", "error"
    credOptions,      \* credential run: pluginOptions["credentials"]
    snmpParams,       \* credential run: what the SNMP client connects with
    ppc,              \* perception run: position of the command
    commandName,      \* perception run: plugin name given to OnCommand
    detection,        \* perception run: env.Detection
    liveHosts,        \* perception run: live hosts not yet tested
    discoveredHosts,  \* perception run: ip -> {address, collect}
    inventory,        \* perception run: data/perception.json as written
    lookups,          \* perception run: the registry lookups made so far
    perceptionStore   \* perception run: {attached, batches handed to WriteBatch}

storeVars == <<db, hostCache, storeLog, storeCall, callers, mu>>

sideVars == <<session, tableWalk, ticksRun, mailRun, probeRun, valueRun,
             shell, sshRun, ifaceRun>>

normVars == <<normIn, normState, normOut>>

credVars == <<credIn, credState, credOptions, snmpParams>>

perceptionVars == <<ppc, commandName, detection, liveHosts, discoveredHosts, inventory,
                    lookups, perceptionStore>>

vars == <<pc, configFile, perceptionFile, hosts, rawCollect, rawCollectByAddr, merged,
          hpc, tasks, tpc, taskResultsChan, taskChanClosed, taskWg, hostMetrics,
          hostInterfaces, resultsChan, resultsClosed, wg, finalResults, snapshot,
          storeVars, sideVars, normVars, credVars, perceptionVars>>

workerVars == <<hpc, tasks, tpc, taskResultsChan, taskChanClosed, taskWg, hostMetrics,
                hostInterfaces, resultsChan, resultsClosed, wg>>

\* the two input files and the state of the other runs, which no step of a
\* collection run changes
inputVars == <<configFile, perceptionFile, sideVars, normVars, credVars, perceptionVars>>

\* what no step of a collection run before writeToStore changes
fileVars == <<inputVars, storeVars>>

configVars == <<hosts, rawCollect, rawCollectByAddr, merged>>

(***************************************************************************)
(* The inputs of a run.                                                    *)
(***************************************************************************)
HostKeys == {"h1", "h2", "h3"}

mP == <<"N", ".", "p">>
mQ == <<"n", ".", "q">>
mR == <<"n", ".", "r">>
mE == <<"n", ".", "e">>
m0 == <<"n", ".", "0">>
mX == <<"n", ".", "x">>
mZ == <<"z", ".", "p">>
mM == <<"l", ".", "m">>
mT == <<"s", ".", "t">>
mU == <<"S", ".", "u">>
mC == <<"c", ".", "c">>

AddrX == <<"x">>
AddrY == <<"y">>
AddrW == <<"w">>

\* collect given as an array of {metric} objects
ObjList(ms) == JArray([i \in 1..Len(ms) |-> ObjItemNoCred(ms[i])])

\* the collect values of the first host: every list of at most MaxCollect
\* objects, and two comma-separated strings
H1Collect ==
    {ObjList(ms) : ms \in SeqsUpTo({mP, mQ, mZ}, MaxCollect)}
        \cup {JString(<<>>), JString(<<"N", ".", "p", ",", " ", "n", ".", "q">>)}

ConfigHost(addr, coll) == [address |-> addr, name |-> "", collect |-> coll]

\* runPerception: the inventory entry written for a live host,
\* {address: ip, collect: validServices}
InventoryHost(addr, services) ==
    [address |-> addr, name |-> "",
     collect |-> JArray([i \in 1..Len(services) |-> StrItem(services[i])])]

NoFile == [exists |-> FALSE, hosts |-> <<>>]
InventoryFile(hs) == [exists |-> TRUE, hosts |-> hs]

NoHost == <<>>

\* the rest of the inputs: the second configured host (absent, or sharing
\* the first host's address, or with failing tasks) and the inventory file
\* (absent, or as runPerception writes it)
Scenarios ==
    { [h2 |-> NoHost, file |-> NoFile],
      [h2 |-> NoHost, file |-> InventoryFile("h3" :> InventoryHost(AddrY, <<>>))],
      [h2 |-> NoHost, file |-> InventoryFile("h3" :> InventoryHost(AddrY, <<mP>>))],
      [h2 |-> <<ConfigHost(AddrX, ObjList(<<mQ>>))>>, file |-> NoFile],
      [h2 |-> <<ConfigHost(AddrY, ObjList(<<mP, mR>>))>>, file |-> NoFile],
      [h2 |-> <<ConfigHost(AddrY, ObjList(<<mE, m0>>))>>,
       file |-> InventoryFile(("h2" :> InventoryHost(AddrW, <<>>))
                                  @@ ("h3" :> InventoryHost(AddrW, <<>>)))],
      [h2 |-> <<ConfigHost(AddrY, ObjList(<<mE, mQ>>))>>,
       file |-> InventoryFile("h3" :> InventoryHost(AddrY, <<mP>>))],
      [h2 |-> <<ConfigHost(AddrY, ObjList(<<mX, mQ>>))>>, file |-> NoFile],
      [h2 |-> <<ConfigHost(AddrY, ObjList(<<mM, mT>>))>>, file |-> NoFile],
      [h2 |-> <<ConfigHost(AddrY, ObjList(<<mU>>))>>, file |-> NoFile],
      [h2 |-> <<ConfigHost(AddrY, JArray(<<ObjItem(mC, <<"k">>)>>))>>, file |-> NoFile] }

ConfigFile(c1, h2) ==
    IF h2 = NoHost THEN ("h1" :> ConfigHost(AddrX, c1))
    ELSE ("h1" :> ConfigHost(AddrX, c1)) @@ ("h2" :> h2[1])

NoHosts == <<>>

\* the collection engine before a run: nothing loaded, no worker started
EngineIdle ==
    /\ hosts = NoHosts
    /\ rawCollect = <<>>
    /\ rawCollectByAddr = <<>>
    /\ merged = FALSE
    /\ hpc = [h \in HostKeys |-> "idle"]
    /\ tasks = [h \in HostKeys |-> <<>>]
    /\ tpc = [h \in HostKeys |-> <<>>]
    /\ taskResultsChan = [h \in HostKeys |-> <<>>]
    /\ taskChanClosed = [h \in HostKeys |-> FALSE]
    /\ taskWg = [h \in HostKeys |-> 0]
    /\ hostMetrics = [h \in HostKeys |-> <<>>]
    /\ hostInterfaces = [h \in HostKeys |-> <<>>]
    /\ resultsChan = <<>>
    /\ resultsClosed = FALSE
    /\ wg = 0
    /\ finalResults = <<>>
    /\ snapshot = [written |-> FALSE, content |-> <<>>]

StoreIdle == [attached |-> FALSE, batch |-> "none", interfaces |-> "none"]

\* no call was made: {op, open, opens, records, faults, err}
NoCall ==
    [op |-> "none", open |-> FALSE, opens |-> 0, records |-> <<>>, faults |-> NoFaults,
     err |-> FALSE]

\* no store is opened
NoStore ==
    /\ db = EmptyDatabase
    /\ hostCache = <<>>
    /\ storeLog = StoreIdle
    /\ storeCall = NoCall
    /\ callers = <<>>
    /\ mu = 0

\* no WaitFor call and no table walk is started
NoSide ==
    /\ session = <<>>
    /\ tableWalk = <<>>
    /\ ticksRun = <<>>
    /\ mailRun = <<>>
    /\ probeRun = <<>>
    /\ valueRun = <<>>
    /\ shell = <<>>
    /\ sshRun = <<>>
    /\ ifaceRun = <<>>

\* no collection run is started
NoCollection ==
    /\ pc = "off"
    /\ configFile = <<>>
    /\ perceptionFile = NoFile
    /\ EngineIdle

NoNormalization == normIn = JAbsent /\ normState = "off" /\ normOut = <<>>

NoCredential ==
    /\ credIn = <<>>
    /\ credState = "off"
    /\ credOptions = <<>>
    /\ snmpParams = <<>>

\* p.Controller.Store == nil
NoPerceptionStore == [attached |-> FALSE, batches |-> <<>>]

NoPerception ==
    /\ ppc = "off"
    /\ commandName = <<>>
    /\ detection = <<>>
    /\ liveHosts = {}
    /\ discoveredHosts = <<>>
    /\ inventory = NoFile
    /\ lookups = {}
    /\ perceptionStore = NoPerceptionStore

Init ==
    /\ NoSide
    /\ pc = "load"
    /\ \E c1 \in H1Collect, sc \in Scenarios :
          /\ configFile = ConfigFile(c1, sc.h2)
          /\ perceptionFile = sc.file
    /\ EngineIdle
    /\ db = OpenedDatabase
    /\ hostCache = <<>>
    /\ storeLog = StoreIdle
    /\ storeCall = NoCall
    /\ callers = <<>>
    /\ mu = 0
    /\ NoNormalization
    /\ NoCredential
    /\ NoPerception

(***************************************************************************)
(* loadConfig                                                              *)
(***************************************************************************)
\* the host keys whose normalized collect list is cached
CachedKeys(file) == {h \in DOMAIN file : Len(CachedCollect(file[h].collect)) > 0}

\* the addresses that get an entry in rawCollectByAddr
CachedAddrs(file) ==
    {TrimSpace(file[h].address) : h \in CachedKeys(file)} \ {<<>>}

\* the typed plugin.Host decoded from a host entry
TypedHost(entry) ==
    [address |-> entry.address, name |-> entry.name,
     collect |-> DecodeTasks(entry.collect)]

\* the host loop ranges over a Go map: for hosts sharing an address the one
\* visited last leaves its list in rawCollectByAddr
LoadConfig ==
    /\ pc = "load"
    /\ LET norm == [h \in DOMAIN configFile |->
                       [configFile[h] EXCEPT !.collect = NormalizedCollect(@)]]
       IN  /\ rawCollect' =
                  [h \in CachedKeys(configFile) |-> CachedCollect(configFile[h].collect)]
           /\ \E last \in [CachedAddrs(configFile) -> CachedKeys(configFile)] :
                 /\ \A a \in CachedAddrs(configFile) :
                        TrimSpace(configFile[last[a]].address) = a
                 /\ rawCollectByAddr' =
                        [a \in CachedAddrs(configFile) |->
                            CachedCollect(configFile[last[a]].collect)]
           /\ IF \A h \in DOMAIN norm : DecodeOK(norm[h].collect)
              THEN /\ hosts' = [h \in DOMAIN norm |-> TypedHost(norm[h])]
                   /\ pc' = "merge"
              ELSE /\ pc' = "loadfailed"
                   /\ UNCHANGED hosts
    /\ UNCHANGED <<fileVars, merged, workerVars, finalResults, snapshot>>

(***************************************************************************)
(* collectData: the perception merge                                       *)
(***************************************************************************)
\* a merge without the `exists` test
MergeHostOverwrite(hs, ip, host) == (ip :> host) @@ hs

\* p.config.Hosts[ip] = host, only when the key is not there yet
MergeHost(hs, ip, host) ==
    IF ip \in DOMAIN hs THEN hs ELSE hs @@ (ip :> host)

RECURSIVE MergeHosts(_, _, _)
MergeHosts(hs, inv, ips) ==
    IF ips = {} THEN hs
    ELSE LET ip == CHOOSE x \in ips : TRUE
         IN  MergeHosts(MergeHost(hs, ip, TypedHost(inv[ip])), inv, ips \ {ip})

\* json.Unmarshal(perceptionFile, &perceptionData) == nil: every collect
\* list decodes into []plugin.CollectTask
PerceptionDecodes(file) ==
    \A ip \in DOMAIN file.hosts : DecodeOK(file.hosts[ip].collect)

MergePerception ==
    /\ pc = "merge"
    /\ IF perceptionFile.exists /\ PerceptionDecodes(perceptionFile)
       THEN /\ hosts' = MergeHosts(hosts, perceptionFile.hosts,
                                   DOMAIN perceptionFile.hosts)
            /\ merged' = TRUE
       ELSE UNCHANGED <<hosts, merged>>
    /\ pc' = "spawn"
    /\ UNCHANGED <<fileVars, rawCollect, rawCollectByAddr, workerVars, finalResults,
                   snapshot>>

(***************************************************************************)
(* collectTask workers                                                     *)
(***************************************************************************)
\* a runtime panic in any goroutine ends the process: no worker recovers
Alive == pc = "spawn"

\* a channel one slot short of its senders
TaskChanCapShort(h) == Len(tasks[h]) - 1

\* capacity of make(chan ..., len(tasks))
TaskChanCap(h) == Len(tasks[h])

\* a results channel with room for one host only
ResultsChanCapOfOne == IF DOMAIN hosts = {} THEN 0 ELSE 1

\* capacity of make(chan ..., len(p.config.Hosts))
ResultsChanCap == Cardinality(DOMAIN hosts)

TaskMetric(h, i) == TrimSpace(tasks[h][i].metric)

\* what collectTask gets from the plugin, "skip" when it returns before
\* the call
TaskOutcome(h, i) ==
    LET metric == TaskMetric(h, i) IN
    IF metric = <<>> THEN [kind |-> "skip", metrics |-> <<>>, interfaces |-> <<>>]
    ELSE IF TaskPluginKey(PluginOf(metric)) \notin Plugins
         THEN [kind |-> "skip", metrics |-> <<>>, interfaces |-> <<>>]
         ELSE OnCollect(TaskPluginKey(PluginOf(metric)), ActionOf(metric))

\* the result as sent: tagged with the plugin name
TaskResult(h, i) ==
    [tag |-> PluginOf(TaskMetric(h, i)),
     metrics |-> TaskOutcome(h, i).metrics,
     interfaces |-> TaskOutcome(h, i).interfaces]

\* the worker is about to call the plugin
TaskCanRun(h, i) == Alive /\ i \in DOMAIN tpc[h] /\ tpc[h][i] = "run"

TaskRun(h, i) ==
    /\ TaskCanRun(h, i)
    /\ LET kind == TaskOutcome(h, i).kind IN
       IF kind = "panic"
       THEN /\ pc' = "crashed"
            /\ UNCHANGED <<tpc, taskWg>>
       ELSE IF TaskSends(kind)
            THEN /\ tpc' = [tpc EXCEPT ![h][i] = "send"]
                 /\ UNCHANGED <<pc, taskWg>>
            ELSE /\ tpc' = [tpc EXCEPT ![h][i] = "done"]
                 /\ taskWg' = [taskWg EXCEPT ![h] = @ - 1]
                 /\ UNCHANGED pc
    /\ UNCHANGED <<fileVars, configVars, hpc, tasks, taskResultsChan, taskChanClosed,
                   hostMetrics, hostInterfaces, resultsChan, resultsClosed, wg,
                   finalResults, snapshot>>

\* taskResultsChan <- result; the deferred wg.Done() follows
\* a send goes through when the buffer has room (and panics on a closed
\* channel); otherwise the worker stays blocked
TaskCanSend(h, i) ==
    /\ Alive
    /\ i \in DOMAIN tpc[h]
    /\ tpc[h][i] = "send"
    /\ \/ taskChanClosed[h]
       \/ Len(taskResultsChan[h]) < TaskChanCap(h)

TaskSend(h, i) ==
    /\ TaskCanSend(h, i)
    /\ IF taskChanClosed[h]
       THEN /\ pc' = "crashed"
            /\ UNCHANGED <<tpc, taskWg, taskResultsChan>>
       ELSE /\ taskResultsChan' = [taskResultsChan EXCEPT ![h] = Append(@, TaskResult(h, i))]
            /\ tpc' = [tpc EXCEPT ![h][i] = "done"]
            /\ taskWg' = [taskWg EXCEPT ![h] = @ - 1]
            /\ UNCHANGED pc
    /\ UNCHANGED <<fileVars, configVars, hpc, tasks, taskChanClosed,
                   hostMetrics, hostInterfaces, resultsChan, resultsClosed, wg,
                   finalResults, snapshot>>

(***************************************************************************)
(* collectHost workers                                                     *)
(***************************************************************************)
HostCanStart(h) == Alive /\ hpc[h] = "start"

HostStart(h) ==
    /\ HostCanStart(h)
    /\ tasks' = [tasks EXCEPT ![h] = BuildTasks(h, hosts[h], rawCollect, rawCollectByAddr)]
    /\ tpc' = [tpc EXCEPT ![h] = [i \in 1..Len(tasks'[h]) |-> "idle"]]
    /\ hpc' = [hpc EXCEPT ![h] = "spawn"]
    /\ UNCHANGED <<pc, fileVars, configVars, taskResultsChan, taskChanClosed, taskWg,
                   hostMetrics, hostInterfaces, resultsChan, resultsClosed, wg,
                   finalResults, snapshot>>

IdleTasks(h) == {i \in DOMAIN tpc[h] : tpc[h][i] = "idle"}

\* taskWg.Add(1); go p.collectTask(...), in the order of the task list
HostCanSpawn(h) == Alive /\ hpc[h] = "spawn" /\ IdleTasks(h) # {}

HostSpawn(h) ==
    /\ HostCanSpawn(h)
    /\ LET i == CHOOSE j \in IdleTasks(h) : \A k \in IdleTasks(h) : j <= k IN
       /\ taskWg' = [taskWg EXCEPT ![h] = @ + 1]
       /\ tpc' = [tpc EXCEPT ![h][i] = "run"]
    /\ UNCHANGED <<pc, fileVars, configVars, hpc, tasks, taskResultsChan, taskChanClosed,
                   hostMetrics, hostInterfaces, resultsChan, resultsClosed, wg,
                   finalResults, snapshot>>

\* taskWg.Wait(); close(taskResultsChan)
\* taskWg.Wait() returns when the counter is zero
HostCanWait(h) == Alive /\ hpc[h] = "spawn" /\ IdleTasks(h) = {} /\ taskWg[h] = 0

HostWait(h) ==
    /\ HostCanWait(h)
    /\ taskChanClosed' = [taskChanClosed EXCEPT ![h] = TRUE]
    /\ hpc' = [hpc EXCEPT ![h] = "merge"]
    /\ UNCHANGED <<pc, fileVars, configVars, tasks, tpc, taskResultsChan, taskWg,
                   hostMetrics, hostInterfaces, resultsChan, resultsClosed, wg,
                   finalResults, snapshot>>

\* the metric as stored in hostMetrics: tagged with the plugin name
TagMetric(metric, tag) ==
    IF tag # <<>> THEN ("__plugin" :> tag) @@ metric ELSE metric

\* a range loop that replaces hostMetrics by the metrics of the result
MergeResultReplace(hm, r) ==
    [l \in DOMAIN r.metrics |-> TagMetric(r.metrics[l], r.tag)]

\* one round of the range loop: hostMetrics[label] = metric for every
\* label of the result
MergeResult(hm, r) ==
    [l \in DOMAIN hm \cup DOMAIN r.metrics |->
        IF l \in DOMAIN r.metrics THEN TagMetric(r.metrics[l], r.tag) ELSE hm[l]]

RECURSIVE MergeResults(_, _)
MergeResults(hm, rs) ==
    IF rs = <<>> THEN hm ELSE MergeResults(MergeResult(hm, Head(rs)), Tail(rs))

RECURSIVE ConcatInterfaces(_)
ConcatInterfaces(rs) ==
    IF rs = <<>> THEN <<>> ELSE Head(rs).interfaces \o ConcatInterfaces(Tail(rs))

\* for taskResult := range taskResultsChan: ends when the channel is
\* closed and drained
HostCanMerge(h) == Alive /\ hpc[h] = "merge" /\ taskChanClosed[h]

HostMerge(h) ==
    /\ HostCanMerge(h)
    /\ hostMetrics' = [hostMetrics EXCEPT ![h] = MergeResults(<<>>, taskResultsChan[h])]
    /\ hostInterfaces' = [hostInterfaces EXCEPT ![h] = ConcatInterfaces(taskResultsChan[h])]
    /\ taskResultsChan' = [taskResultsChan EXCEPT ![h] = <<>>]
    /\ hpc' = [hpc EXCEPT ![h] = "send"]
    /\ UNCHANGED <<pc, fileVars, configVars, tasks, tpc, taskChanClosed, taskWg,
                   resultsChan, resultsClosed, wg, finalResults, snapshot>>

\* {hostName: {metrics: {metrics: hostMetrics}, __interfaces: hostInterfaces}}
HostResult(h) ==
    [host |-> h,
     data |-> ("metrics" :> ("metrics" :> hostMetrics[h]))
                  @@ ("__interfaces" :> hostInterfaces[h])]

\* resultsChan <- result; the deferred wg.Done() follows
HostCanSend(h) ==
    /\ Alive
    /\ hpc[h] = "send"
    /\ \/ resultsClosed
       \/ Len(resultsChan) < ResultsChanCap

HostSend(h) ==
    /\ HostCanSend(h)
    /\ IF resultsClosed
       THEN /\ pc' = "crashed"
            /\ UNCHANGED <<hpc, resultsChan, wg>>
       ELSE /\ resultsChan' = Append(resultsChan, HostResult(h))
            /\ wg' = wg - 1
            /\ hpc' = [hpc EXCEPT ![h] = "done"]
            /\ UNCHANGED pc
    /\ UNCHANGED <<fileVars, configVars, tasks, tpc, taskResultsChan, taskChanClosed,
                   taskWg, hostMetrics, hostInterfaces, resultsClosed, finalResults,
                   snapshot>>

(***************************************************************************)
(* collectData: fan-out, gather, snapshot                                  *)
(***************************************************************************)
\* wg.Add(1); go p.collectHost(...), in the order of the map iteration
EngineCanSpawn(h) == pc = "spawn" /\ h \in DOMAIN hosts /\ hpc[h] = "idle"

EngineSpawn(h) ==
    /\ EngineCanSpawn(h)
    /\ wg' = wg + 1
    /\ hpc' = [hpc EXCEPT ![h] = "start"]
    /\ UNCHANGED <<pc, fileVars, configVars, tasks, tpc, taskResultsChan, taskChanClosed,
                   taskWg, hostMetrics, hostInterfaces, resultsChan, resultsClosed,
                   finalResults, snapshot>>

\* wg.Wait(); close(resultsChan)
\* wg.Wait() returns when the counter is zero
EngineCanWait == pc = "spawn" /\ (\A h \in DOMAIN hosts : hpc[h] # "idle") /\ wg = 0

EngineWait ==
    /\ EngineCanWait
    /\ resultsClosed' = TRUE
    /\ pc' = "gather"
    /\ UNCHANGED <<fileVars, configVars, hpc, tasks, tpc, taskResultsChan, taskChanClosed,
                   taskWg, hostMetrics, hostInterfaces, resultsChan, wg, finalResults,
                   snapshot>>

\* a gather loop that drops the hosts without metrics
RECURSIVE GatherNonEmpty(_, _)
GatherNonEmpty(fr, rs) ==
    IF rs = <<>> THEN fr
    ELSE IF DOMAIN Head(rs).data["metrics"]["metrics"] = {}
         THEN GatherNonEmpty(fr, Tail(rs))
         ELSE GatherNonEmpty((Head(rs).host :> Head(rs).data) @@ fr, Tail(rs))

RECURSIVE Gather(_, _)
Gather(fr, rs) ==
    IF rs = <<>> THEN fr
    ELSE Gather((Head(rs).host :> Head(rs).data) @@ fr, Tail(rs))

\* for hostResult := range resultsChan { finalResults[hostName] = metrics }
EngineCanGather == pc = "gather" /\ resultsClosed

EngineGather ==
    /\ EngineCanGather
    /\ finalResults' = Gather(<<>>, resultsChan)
    /\ resultsChan' = <<>>
    /\ pc' = "store"
    /\ UNCHANGED <<fileVars, configVars, hpc, tasks, tpc, taskResultsChan, taskChanClosed,
                   taskWg, hostMetrics, hostInterfaces, resultsClosed, wg, snapshot>>

StandardKeys == {"name", "label", "value", "type", "category", "__plugin", "instance"}

\* fmt.Sprintf("%v", m["value"])
MetricValue(m) ==
    IF "value" \in DOMAIN m THEN SprintValue(m["value"]) ELSE <<"<", "n", "i", "l", ">">>

\* writeToStore: the MetricRecord of one metric map, without its ValueNum
\* (MetricRecordWithNum adds it)
MetricRecord(hostKey, hostName, hostAddress, m, now) ==
    [host_key |-> hostKey, host_name |-> hostName, host_address |-> hostAddress,
     plugin |-> IF "__plugin" \in DOMAIN m THEN m["__plugin"] ELSE <<>>,
     name |-> IF "name" \in DOMAIN m /\ m["name"] # <<>> THEN m["name"]
              ELSE IF "label" \in DOMAIN m THEN m["label"] ELSE <<>>,
     category |-> IF "category" \in DOMAIN m THEN m["category"] ELSE "",
     metric_type |-> IF "type" \in DOMAIN m THEN m["type"] ELSE "",
     value |-> MetricValue(m),
     instance |-> AsString(m, "instance"),
     extra |-> [k \in DOMAIN m \ StandardKeys |-> m[k]],
     collected_at |-> now]

\* "Look up host inventory info"
HostNameOf(hs, hostKey) ==
    IF hostKey \in DOMAIN hs /\ hs[hostKey].name # "" THEN hs[hostKey].name ELSE hostKey

HostAddressOf(hs, hostKey) == IF hostKey \in DOMAIN hs THEN hs[hostKey].address ELSE <<>>

\* writeToStore: the metric records of all hosts
MetricRecords(fr, hs, now) ==
    LET ofHost(h) ==
           LET mm == fr[h]["metrics"]["metrics"]
               labels == SeqOf(DOMAIN mm)
           IN  [i \in 1..Len(labels) |->
                   MetricRecord(h, HostNameOf(hs, h), HostAddressOf(hs, h), mm[labels[i]], now)]
        keys == SeqOf(DOMAIN fr)
    IN  Concat([i \in 1..Len(keys) |-> ofHost(keys[i])])

\* writeToStore: the interface records of all hosts
InterfaceRecords(fr, hs) ==
    LET keys == SeqOf(DOMAIN fr)
    IN  Concat([i \in 1..Len(keys) |->
                   InterfaceListToRecords(keys[i], HostNameOf(hs, keys[i]),
                                          HostAddressOf(hs, keys[i]),
                                          fr[keys[i]]["__interfaces"])])

\* what the database can do to a call of the store
TxFault(kind) == [hosts |-> <<>>, tx |-> kind, inserts |-> {}]

StoreFaults == {NoFaults, TxFault("begin"), TxFault("commit")}

\* a writeToStore that gives up after a WriteBatch error
UpsertCalledAfterSuccess(batchErr, ifaceRecords) == Len(ifaceRecords) > 0 /\ ~batchErr

\* UpsertInterfaces is called whenever there are interface records
UpsertCalled(batchErr, ifaceRecords) == Len(ifaceRecords) > 0

\* writeToStore: gives {db, hostCache, log}
writeToStore(fr, hs, database, cache, batchFaults, ifaceFaults) ==
    LET metricRecords == MetricRecords(fr, hs, database.clock)
        ifaceRecords == InterfaceRecords(fr, hs)
        b == IF Len(metricRecords) > 0
             THEN WriteBatch(database, cache, metricRecords, batchFaults)
             ELSE [db |-> database, hostCache |-> cache, err |-> FALSE]
        called == UpsertCalled(b.err, ifaceRecords)
        u == IF called THEN UpsertInterfaces(b.db, b.hostCache, ifaceRecords, ifaceFaults)
             ELSE [db |-> b.db, hostCache |-> b.hostCache, err |-> FALSE]
    IN  [db |-> u.db, hostCache |-> u.hostCache,
         log |-> [attached |-> TRUE,
                  batch |-> IF Len(metricRecords) = 0 THEN "none"
                            ELSE IF b.err THEN "error" ELSE "ok",
                  interfaces |-> IF ~called THEN "none"
                                 ELSE IF u.err THEN "error" ELSE "ok"]]

\* collectData: if p.Controller.Store != nil { p.writeToStore(finalResults) }
EngineStore ==
    /\ pc = "store"
    /\ \E attached \in BOOLEAN, batchFaults \in StoreFaults, ifaceFaults \in StoreFaults :
          IF attached
          THEN LET w == writeToStore(finalResults, hosts, db, hostCache,
                                     batchFaults, ifaceFaults)
               IN  /\ db' = w.db
                   /\ hostCache' = w.hostCache
                   /\ storeLog' = w.log
                   /\ UNCHANGED <<storeCall, callers, mu>>
          ELSE UNCHANGED storeVars
    /\ pc' = "write"
    /\ UNCHANGED <<inputVars, configVars, workerVars, finalResults, snapshot>>

\* a stripInternalTags that deletes only the instance of a metric
StripMetricInstanceOnly(m) == [k \in DOMAIN m \ {"instance"} |-> m[k]]

\* stripInternalTags on one metric
StripMetric(m) == [k \in DOMAIN m \ {"__plugin", "instance"} |-> m[k]]

\* stripInternalTags on one host entry
StripHost(data) ==
    LET kept == [k \in DOMAIN data \ {"__interfaces"} |-> data[k]]
        mm == data["metrics"]["metrics"]
    IN  [kept EXCEPT !["metrics"] =
            ("metrics" :> [l \in DOMAIN mm |-> StripMetric(mm[l])])]

StripInternalTags(fr) == [h \in DOMAIN fr |-> StripHost(fr[h])]

\* stripInternalTags, json.MarshalIndent, ioutil.WriteFile: the write may
\* fail
EngineWrite ==
    /\ pc = "write"
    /\ \E ok \in BOOLEAN :
          IF ok
          THEN /\ snapshot' = [written |-> TRUE, content |-> StripInternalTags(finalResults)]
               /\ pc' = "done"
          ELSE /\ pc' = "writefailed"
               /\ UNCHANGED snapshot
    /\ UNCHANGED <<fileVars, configVars, workerVars, finalResults>>

Next ==
    \/ LoadConfig
    \/ MergePerception
    \/ \E h \in HostKeys : EngineSpawn(h)
    \/ \E h \in HostKeys : HostStart(h)
    \/ \E h \in HostKeys : HostSpawn(h)
    \/ \E h \in HostKeys : \E i \in 1..(MaxCollect + 2) : TaskRun(h, i)
    \/ \E h \in HostKeys : \E i \in 1..(MaxCollect + 2) : TaskSend(h, i)
    \/ \E h \in HostKeys : HostWait(h)
    \/ \E h \in HostKeys : HostMerge(h)
    \/ \E h \in HostKeys : HostSend(h)
    \/ EngineWait
    \/ EngineGather
    \/ EngineStore
    \/ EngineWrite

\* some step of the engine or of a worker can be taken: the disjunction of
\* the conditions under which each step of Next goes through
CanStep ==
    \/ pc \in {"load", "merge", "store", "write"}
    \/ \E h \in HostKeys : EngineCanSpawn(h)
    \/ \E h \in HostKeys : HostCanStart(h) \/ HostCanSpawn(h) \/ HostCanWait(h)
    \/ \E h \in HostKeys : HostCanMerge(h) \/ HostCanSend(h)
    \/ \E h \in HostKeys : \E i \in DOMAIN tpc[h] : TaskCanRun(h, i) \/ TaskCanSend(h, i)
    \/ EngineCanWait
    \/ EngineCanGather

Spec == Init /\ [][Next]_vars


(***************************************************************************)
(* Properties of a collection run.                                         *)
(***************************************************************************)
\* the label -> metric map of a host in the snapshot
SnapshotMetrics(h) == snapshot.content[h]["metrics"]["metrics"]

\* the tasks of a host whose plugin call gave a result
OkTasks(h) == {i \in 1..Len(tasks[h]) : TaskOutcome(h, i).kind = "ok"}

\* the tasks of a host that failed: plugin not registered, error, nil
FailedTasks(h) ==
    {i \in 1..Len(tasks[h]) : TaskOutcome(h, i).kind \in {"skip", "err", "nil"}}

TimesInChan(h) == Cardinality({i \in 1..Len(resultsChan) : resultsChan[i].host = h})

\* C1: once the snapshot is written its top-level keys are exactly the keys
\* of the working host map after the perception merge; every host was
\* gathered exactly once, and a host without a successful task has an empty
\* metrics.metrics map.
C1_SnapshotKeysAreHosts ==
    /\ pc = "gather" => \A h \in HostKeys :
           TimesInChan(h) = IF h \in DOMAIN hosts THEN 1 ELSE 0
    /\ snapshot.written =>
           /\ DOMAIN snapshot.content = DOMAIN hosts
           /\ \A h \in DOMAIN hosts :
                 /\ DOMAIN snapshot.content[h] = {"metrics"}
                 /\ DOMAIN snapshot.content[h]["metrics"] = {"metrics"}
                 /\ OkTasks(h) = {} => DOMAIN SnapshotMetrics(h) = {}

\* a written snapshot holding a host without tasks, a host whose every task
\* failed, and a host merged from the inventory
C1_Witness ==
    /\ snapshot.written
    /\ \E h \in DOMAIN hosts : tasks[h] = <<>> /\ h \notin DOMAIN configFile
    /\ \E h \in DOMAIN hosts : tasks[h] # <<>> /\ OkTasks(h) = {}
    /\ \E h \in DOMAIN hosts : OkTasks(h) # {}

WorkersFinished ==
    /\ wg = 0
    /\ \A h \in DOMAIN hosts :
          /\ hpc[h] = "done"
          /\ taskWg[h] = 0
          /\ taskChanClosed[h]
          /\ \A i \in DOMAIN tpc[h] : tpc[h][i] = "done"

\* some OnCollect call did not return
PanicHappened ==
    /\ pc = "crashed"
    /\ \E h \in HostKeys : \E i \in DOMAIN tpc[h] :
          tpc[h][i] = "run" /\ TaskOutcome(h, i).kind = "panic"

\* the run is over: the snapshot write was reached, the configuration did
\* not load, or an OnCollect call did not return
RunOver ==
    \/ pc \in {"done", "writefailed"} /\ WorkersFinished
    \/ pc = "loadfailed"
    \/ PanicHappened

PcRank(p) ==
    CASE p = "load" -> 0 [] p = "merge" -> 1 [] p = "spawn" -> 2
      [] p = "gather" -> 3 [] p = "store" -> 4 [] p = "write" -> 5 [] OTHER -> 6

HpcRank(p) ==
    CASE p = "idle" -> 0 [] p = "start" -> 1 [] p = "spawn" -> 2
      [] p = "merge" -> 3 [] p = "send" -> 4 [] OTHER -> 5

TpcRank(p) ==
    CASE p = "idle" -> 0 [] p = "run" -> 1 [] p = "send" -> 2 [] OTHER -> 3

RECURSIVE SumTpc(_)
SumTpc(ps) == IF ps = <<>> THEN 0 ELSE TpcRank(Head(ps)) + SumTpc(Tail(ps))

RECURSIVE SumHosts(_, _, _)
SumHosts(hp, tp, hs) ==
    IF hs = {} THEN 0
    ELSE LET h == CHOOSE x \in hs : TRUE
         IN  HpcRank(hp[h]) + SumTpc(tp[h]) + SumHosts(hp, tp, hs \ {h})

\* the number of steps the engine and its workers have taken
Progress(p, hp, tp) == PcRank(p) + SumHosts(hp, tp, HostKeys)

\* C3: a run in which the configuration loads and every OnCollect call
\* returns terminates under fair scheduling: as long as the run is not over
\* some worker or the engine can take a step (no worker is blocked for
\* ever on a send or a wait), and every step is one step of progress of a
\* bounded count, so a fairly scheduled run reaches the snapshot write with
\* every worker finished.
C3_RunTerminates ==
    /\ [](RunOver \/ CanStep)
    /\ [][Progress(pc', hpc', tpc') > Progress(pc, hpc, tpc)]_vars

\* a finished run in which a host had all of its MaxCollect task workers
\* send a result
C3_Witness ==
    /\ pc = "done"
    /\ WorkersFinished
    /\ \E h \in DOMAIN hosts :
          Len(tasks[h]) >= 2 /\ OkTasks(h) = 1..Len(tasks[h])
    /\ Cardinality(DOMAIN hosts) >= 2

\* no two successful tasks of one host return the same label
NoLabelClash ==
    \A h \in DOMAIN hosts : \A i, j \in OkTasks(h) :
        i # j => DOMAIN TaskOutcome(h, i).metrics \cap DOMAIN TaskOutcome(h, j).metrics = {}

\* the results of the successful tasks of a host, in task-list order
RECURSIVE ResultsInListOrder(_, _)
ResultsInListOrder(h, i) ==
    IF i > Len(tasks[h]) THEN <<>>
    ELSE IF i \in OkTasks(h)
         THEN <<TaskResult(h, i)>> \o ResultsInListOrder(h, i + 1)
         ELSE ResultsInListOrder(h, i + 1)

\* the snapshot a run gives when every result arrives in task-list order
SnapshotInListOrder ==
    [h \in DOMAIN hosts |->
        ("metrics" :> ("metrics" :>
            [l \in DOMAIN MergeResults(<<>>, ResultsInListOrder(h, 1)) |->
                StripMetric(MergeResults(<<>>, ResultsInListOrder(h, 1))[l])]))]

\* C4: when no two tasks of a host return the same label, the snapshot is
\* the one obtained with the results taken in task-list order, whatever the
\* order in which the workers completed.
C4_SnapshotOrderIndependent ==
    (snapshot.written /\ NoLabelClash) => snapshot.content = SnapshotInListOrder

\* a written snapshot of a run where two tasks of one host returned
\* different labels and a second host ran as well
C4_Witness ==
    /\ snapshot.written
    /\ NoLabelClash
    /\ \E h \in DOMAIN hosts : Cardinality(OkTasks(h)) >= 2
    /\ \E h1, h2 \in DOMAIN hosts : h1 # h2 /\ OkTasks(h1) # {} /\ OkTasks(h2) # {}

\* C5: a panic inside a task worker does not crash the process.
C5_PanicDoesNotCrash == pc # "crashed"

\* C6: every host of an inventory file written by a perception run whose
\* key is not configured is in the working host set after the merge and in
\* the snapshot.
C6_InventoryHostsMerged ==
    /\ pc \notin {"load", "merge", "loadfailed"} =>
           \A ip \in DOMAIN perceptionFile.hosts : ip \in DOMAIN hosts
    /\ snapshot.written =>
           \A ip \in DOMAIN perceptionFile.hosts : ip \in DOMAIN snapshot.content

\* C7: the working host map only grows: an entry, once there, is never
\* changed or removed, in particular not by the perception merge.
C7_HostMapOnlyGrows ==
    [][\A h \in DOMAIN hosts : h \in DOMAIN hosts' /\ hosts'[h] = hosts[h]]_vars

\* the merge ran over an inventory holding a configured key with another
\* address and a new key, and the new key was inserted
C7_Witness ==
    /\ merged
    /\ \E ip \in DOMAIN perceptionFile.hosts :
          /\ ip \in DOMAIN configFile
          /\ perceptionFile.hosts[ip].address # configFile[ip].address
    /\ \E ip \in DOMAIN perceptionFile.hosts :
          ip \notin DOMAIN configFile /\ ip \in DOMAIN hosts

\* C11: every metric of the written snapshot has a value, and the value is
\* a string, whichever plugin produced it.
C11_ValuesAreStrings ==
    snapshot.written =>
        \A h \in DOMAIN snapshot.content :
            \A l \in DOMAIN SnapshotMetrics(h) :
                /\ "value" \in DOMAIN SnapshotMetrics(h)[l]
                /\ SnapshotMetrics(h)[l].value.type = "string"

\* the identity of a persisted metric
MetricIdentity(row) ==
    <<row.host_id, row.plugin, row.name, row.instance, row.collected_at>>

\* C12: no two metric rows that one run persisted have the same host, plugin,
\* name, instance and collection time.
C12_PersistedMetricsAreDistinct ==
    \A i, j \in 1..Len(db.metrics) :
        MetricIdentity(db.metrics[i]) = MetricIdentity(db.metrics[j]) => i = j

\* C13: whatever the store does (no Store attached, a WriteBatch error, an
\* UpsertInterfaces error) the store step leaves the gathered results as
\* they are and hands over to the snapshot write, it calls UpsertInterfaces
\* whenever there are interface records, also after a WriteBatch error, and
\* the snapshot write puts the same content in the file and ends the run
\* with success.
C13_StoreOutcomeIsIgnored ==
    [][/\ pc = "store" =>
            /\ pc' = "write"
            /\ finalResults' = finalResults
            /\ snapshot' = snapshot
            /\ (storeLog'.attached /\ InterfaceRecords(finalResults, hosts) # <<>>)
                   => storeLog'.interfaces # "none"
       /\ (pc = "write" /\ snapshot'.written) =>
            /\ pc' = "done"
            /\ snapshot'.content = StripInternalTags(finalResults)]_vars

\* a run whose WriteBatch failed, whose UpsertInterfaces was called and whose
\* snapshot is written
C13_Witness ==
    /\ pc = "done"
    /\ snapshot.written
    /\ storeLog.batch = "error"
    /\ storeLog.interfaces = "ok"

\* a snapshot key that begins with "__": the field names of the model with
\* that prefix, and the labels, which are character sequences
BeginsWithUnderscores(k) == k \in {"__plugin", "__interfaces"}

LabelBeginsWithUnderscores(l) == HasPrefix(l, <<"_", "_">>)

\* no "__" key at any level of the written snapshot: as C14 is worded
C14_NoUnderscoreKeyAtAnyLevel ==
    snapshot.written =>
        \A h \in DOMAIN snapshot.content :
            /\ \A k \in DOMAIN snapshot.content[h] : ~BeginsWithUnderscores(k)
            /\ \A l \in DOMAIN SnapshotMetrics(h) :
                  /\ ~LabelBeginsWithUnderscores(l)
                  /\ \A k \in DOMAIN SnapshotMetrics(h)[l] : ~BeginsWithUnderscores(k)

\* C14: the written snapshot has no __interfaces key on a host and no
\* __plugin key on a metric, with and without a Store; the labels are the
\* ones the plugins returned.
C14_InternalTagsAreStripped ==
    snapshot.written =>
        \A h \in DOMAIN snapshot.content :
            /\ "__interfaces" \notin DOMAIN snapshot.content[h]
            /\ DOMAIN SnapshotMetrics(h) = DOMAIN finalResults[h]["metrics"]["metrics"]
            /\ \A l \in DOMAIN SnapshotMetrics(h) :
                  \A k \in DOMAIN SnapshotMetrics(h)[l] : ~BeginsWithUnderscores(k)

\* a written snapshot of a run with a Store whose gathered results carried
\* interfaces and tagged metrics
C14_Witness ==
    /\ snapshot.written
    /\ storeLog.attached
    /\ \E h \in DOMAIN finalResults :
          /\ finalResults[h]["__interfaces"] # <<>>
          /\ \E l \in DOMAIN finalResults[h]["metrics"]["metrics"] :
                "__plugin" \in DOMAIN finalResults[h]["metrics"]["metrics"][l]

\* C31: stripping removes only the keys that begin with "__": every other
\* field of a gathered metric, instance and oid included, is in the written
\* snapshot with the same value, and so is every other key of a host entry.
C31_OnlyUnderscoreKeysAreRemoved ==
    snapshot.written =>
        \A h \in DOMAIN finalResults :
            /\ h \in DOMAIN snapshot.content
            /\ \A k \in DOMAIN finalResults[h] :
                  ~BeginsWithUnderscores(k) => k \in DOMAIN snapshot.content[h]
            /\ \A l \in DOMAIN finalResults[h]["metrics"]["metrics"] :
                  LET m == finalResults[h]["metrics"]["metrics"][l]
                  IN  /\ l \in DOMAIN SnapshotMetrics(h)
                      /\ \A k \in DOMAIN m :
                            ~BeginsWithUnderscores(k) =>
                                /\ k \in DOMAIN SnapshotMetrics(h)[l]
                                /\ SnapshotMetrics(h)[l][k] = m[k]

\* the metrics of a host's own collect list, as collectHost trims them
OwnMetrics(h) ==
    {TrimSpace(hosts[h].collect[i].metric) : i \in 1..Len(hosts[h].collect)}

C29_TaskMetricsAreDistinct ==
    \A h \in HostKeys : \A i, j \in 1..Len(tasks[h]) :
        tasks[h][i].metric = tasks[h][j].metric => i = j

\* the task workers of a host that have finished after sending a result
SentTasks(h) == {i \in OkTasks(h) \cap DOMAIN tpc[h] : tpc[h][i] = "done"}

\* the channels of a run: a sender about to send finds the channel open and
\* not full, a closed channel has no sender left, and an undrained channel
\* holds one result per sender that has sent
ChannelsInOrder ==
    /\ \A h \in HostKeys :
          /\ \A i \in DOMAIN tpc[h] :
                tpc[h][i] = "send" =>
                    ~taskChanClosed[h] /\ Len(taskResultsChan[h]) < TaskChanCap(h)
          /\ taskChanClosed[h] => \A i \in DOMAIN tpc[h] : tpc[h][i] = "done"
          /\ hpc[h] \in {"spawn", "merge"} =>
                Len(taskResultsChan[h]) = Cardinality(SentTasks(h))
          /\ hpc[h] = "send" =>
                ~resultsClosed /\ Len(resultsChan) < ResultsChanCap
    /\ resultsClosed => \A h \in DOMAIN hosts : hpc[h] = "done"
    /\ pc \in {"spawn", "gather"} =>
          /\ Len(resultsChan) =
                Cardinality({h \in DOMAIN hosts \cap HostKeys : hpc[h] = "done"})
          /\ \A i, j \in 1..Len(resultsChan) :
                resultsChan[i].host = resultsChan[j].host => i = j
    /\ pc = "gather" => {resultsChan[i].host : i \in 1..Len(resultsChan)} = DOMAIN hosts

\* C30: in every interleaving each task worker sends at most one result and
\* each host worker exactly one, every send finds free capacity in a channel
\* that is still open, a channel is closed only after all of its senders
\* have finished, and results are taken out of a channel only after its close
C30_ChannelProtocol ==
    /\ []ChannelsInOrder
    /\ [][/\ Len(resultsChan') < Len(resultsChan) => resultsClosed
          /\ \A h \in HostKeys :
                Len(taskResultsChan'[h]) < Len(taskResultsChan[h]) => taskChanClosed[h]]_vars

\* two host workers have sent their result, one of them after two of its
\* task workers sent theirs, and the results channel is closed and not read
C30_Witness ==
    /\ pc = "gather"
    /\ resultsClosed
    /\ Len(resultsChan) = 2
    /\ \E h \in DOMAIN hosts : Cardinality(SentTasks(h)) >= 2 /\ taskChanClosed[h]

(***************************************************************************)
(* Normalization runs: loadConfig applied to one hosts[*].collect value in *)
(* each of the accepted shapes.                                            *)
(***************************************************************************)
NormChars == {"p", "c", " ", ","}

\* "network.ping, network.ssh admin", with the names shortened
ExampleCollect ==
    <<"n", ".", "p", ",", " ", "n", ".", "s", " ", "a">>

\* shape (c): a comma-separated string
StringShapes ==
    {JString(str) : str \in SeqsUpTo(NormChars, MaxStrLen)} \cup {JString(ExampleCollect)}

ItemStrings == {<<>>, <<" ">>, <<"p">>, <<" ", "p">>, <<"p", " ", "c">>}

\* shape (b): an array of "<metric> <credential>?" strings
StringListShapes ==
    {JArray([i \in 1..Len(l) |-> StrItem(l[i])]) : l \in SeqsUpTo(ItemStrings, 2)}

ItemObjects ==
    {ObjItemNoCred(<<"p">>), ObjItemNoCred(<<" ", "p", " ">>), ObjItem(<<"p">>, <<"c">>)}

\* shape (a): an array of {metric, credentials} objects
ObjectListShapes == {JArray(l) : l \in SeqsUpTo(ItemObjects, 2)}

CollectShapes == StringShapes \cup StringListShapes \cup ObjectListShapes

InitNorm ==
    /\ NoSide
    /\ normIn \in CollectShapes
    /\ normState = "raw"
    /\ normOut = <<>>
    /\ NoCollection
    /\ NoStore
    /\ NoCredential
    /\ NoPerception

\* loadConfig on a configuration whose one host has collect = normIn: the
\* normalization step, then the typed decoding of the configuration
LoadCollect ==
    /\ normState = "raw"
    /\ IF DecodeOK(NormalizedCollect(normIn))
       THEN /\ normOut' = DecodeTasks(NormalizedCollect(normIn))
            /\ normState' = "loaded"
       ELSE /\ normState' = "failed"
            /\ UNCHANGED normOut
    /\ UNCHANGED <<normIn, pc, configFile, perceptionFile, configVars, workerVars,
                   finalResults, snapshot, storeVars, sideVars,
                   credVars, perceptionVars>>

\* the same step on the value written back by the first one
ReloadCollect ==
    /\ normState = "loaded"
    /\ normIn' = NormalizedCollect(normIn)
    /\ normOut' = DecodeTasks(NormalizedCollect(NormalizedCollect(normIn)))
    /\ normState' = "reloaded"
    /\ UNCHANGED <<pc, configFile, perceptionFile, configVars, workerVars,
                   finalResults, snapshot, storeVars, sideVars,
                   credVars, perceptionVars>>

NextNorm == LoadCollect \/ ReloadCollect

SpecNorm == InitNorm /\ [][NextNorm]_vars

\* C24: normalization is idempotent: the normalization step applied to the
\* value it produced gives the same array of objects, for every collect
\* value in one of the three accepted shapes
C24_NormalizationIsIdempotent ==
    /\ normState # "off" =>
          NormalizedCollect(NormalizedCollect(normIn)) = NormalizedCollect(normIn)
    /\ normState = "reloaded" =>
          /\ DecodeOK(normIn)
          /\ NormalizedCollect(normIn) = normIn
          /\ normOut = DecodeTasks(normIn)

\* a value was normalized a second time: two objects, one with a credential
C24_Witness ==
    /\ normState = "reloaded"
    /\ normIn.kind = "array"
    /\ Len(normIn.items) = 2
    /\ \E i \in 1..2 : normIn.items[i].hasCred
    /\ \E i \in 1..2 : ~normIn.items[i].hasCred

\* C8: loading succeeds for every collect value of the three accepted
\* shapes, an empty string and a list of blank strings included, and gives
\* tasks with trimmed metric and credentials; "n.p, n.s a" gives
\* [{metric: n.p}, {metric: n.s, credentials: a}].
C8_EveryShapeLoads ==
    normState \in {"loaded", "failed"} =>
        /\ normState = "loaded"
        /\ \A i \in 1..Len(normOut) :
              /\ normOut[i].metric = TrimSpace(normOut[i].metric)
              /\ normOut[i].metric # <<>>
              /\ normOut[i].credentials = TrimSpace(normOut[i].credentials)
        /\ normIn = JString(ExampleCollect) =>
              normOut = <<CollectTask(<<"n", ".", "p">>, NoStr),
                          CollectTask(<<"n", ".", "s">>, <<"a">>)>>

(***************************************************************************)
(* Credential runs: collectTask projects one resolved credential into the  *)
(* plugin options, and the SNMP collector reads its connection parameters  *)
(* from them.                                                              *)
(***************************************************************************)
DefaultPort == 161

DefaultCommunity == <<"p", "u", "b">>

PrivateCommunity == <<"p", "r", "v">>

\* getSNMPVersion
getSNMPVersion(version) ==
    LET v == ToLower(version)
    IN  CASE v = <<"1">> -> "v1"
          [] v = <<"2", "c">> \/ v = <<"2">> -> "v2c"
          [] v = <<"3">> -> "v3"
          [] OTHER -> "v2c"

\* the version a credential asks for, "" standing for unset
ConfiguredVersion(version) ==
    CASE ToLower(version) = <<"1">> -> "v1"
      [] ToLower(version) = <<"3">> -> "v3"
      [] OTHER -> "v2c"

Ports == {0, DefaultPort, 1161}

Communities == {<<>>, DefaultCommunity, PrivateCommunity}

Versions == {<<>>, <<"1">>, <<"2">>, <<"2", "c">>, <<"2", "C">>, <<"3">>}

\* entries of the configuration's credentials map
Credentials ==
    [user : {<<"u">>}, pass : {<<"w">>}, host : {<<>>, <<"g">>}, port : Ports,
     type : {<<>>, <<"s">>}, community : Communities, version : Versions]

InitCred ==
    /\ NoSide
    /\ credIn \in [name : {<<"a">>}, resolves : BOOLEAN, cred : Credentials]
    /\ credState = "task"
    /\ credOptions = <<>>
    /\ snmpParams = <<>>
    /\ NoCollection
    /\ NoStore
    /\ NoNormalization
    /\ NoPerception

\* the credentials entry collectTask builds from a resolved credential
ProjectCredential(cred) ==
    ("user" :> GoString(cred.user)) @@ ("pass" :> GoString(cred.pass)) @@
    ("host" :> GoString(cred.host)) @@ ("port" :> GoString(Sprintf_d(cred.port))) @@
    ("type" :> GoString(cred.type))

\* collectTask up to the call of OnCollect, for a task that names credIn
BuildOptions ==
    /\ credState = "task"
    /\ credOptions' =
          [collection |-> [credentials |-> credIn.name],
           hasCredentials |-> credIn.resolves,
           credentials |-> IF credIn.resolves THEN ProjectCredential(credIn.cred) ELSE <<>>]
    /\ credState' = "options"
    /\ UNCHANGED <<credIn, snmpParams, pc, configFile, perceptionFile, configVars,
                   workerVars, finalResults, snapshot, storeVars, sideVars,
                   normVars, perceptionVars>>

\* snmpPlugin.OnCollect up to the connection: host, port, community, version
SnmpParams(options, address) ==
    LET credentials == options.credentials
        host == AsString(credentials, "host")
        port == AsFloat64(credentials, "port")
        community == AsString(credentials, "community")
        deviceType == AsString(credentials, "type")
    IN  [host |-> IF host = <<>> THEN address ELSE host,
         port |-> IF port = 0 THEN DefaultPort ELSE port,
         community |-> IF community = <<>> THEN DefaultCommunity ELSE community,
         version |-> getSNMPVersion(AsString(credentials, "version")),
         deviceType |-> IF deviceType = <<>> THEN <<"g", "e", "n">> ELSE deviceType]

SnmpCollect ==
    /\ credState = "options"
    /\ IF credOptions.hasCredentials
       THEN /\ snmpParams' = SnmpParams(credOptions, <<"h">>)
            /\ credState' = "connected"
       ELSE /\ credState' = "nocredentials"
            /\ UNCHANGED snmpParams
    /\ UNCHANGED <<credIn, credOptions, pc, configFile, perceptionFile, configVars,
                   workerVars, finalResults, snapshot, storeVars, sideVars,
                   normVars, perceptionVars>>

NextCred == BuildOptions \/ SnmpCollect

SpecCred == InitCred /\ [][NextCred]_vars

\* C9: for a task whose credential resolves, the options carry user, pass,
\* host, port as a decimal string, type, community and version, and the SNMP
\* collector connects with the configured port, community and version,
\* falling back to 161, public and v2c only for a field left unset.
C9_CredentialReachesSnmp ==
    LET cred == credIn.cred
        c == credOptions.credentials
    IN  /\ (credState \in {"options", "connected"} /\ credIn.resolves) =>
              /\ AsString(c, "user") = cred.user
              /\ AsString(c, "pass") = cred.pass
              /\ AsString(c, "host") = cred.host
              /\ AsString(c, "port") = Sprintf_d(cred.port)
              /\ AsString(c, "type") = cred.type
              /\ AsString(c, "community") = cred.community
              /\ AsString(c, "version") = cred.version
        /\ credState = "connected" =>
              /\ snmpParams.port = (IF cred.port = 0 THEN DefaultPort ELSE cred.port)
              /\ snmpParams.community =
                    (IF cred.community = <<>> THEN DefaultCommunity ELSE cred.community)
              /\ snmpParams.version = ConfiguredVersion(cred.version)

(***************************************************************************)
(* Store runs: a sequence of calls on the store of one database: Open      *)
(* (openSQL and migrate, which gives a new sqlStore with an empty host      *)
(* cache), WriteBatch and UpsertInterfaces.  The clock of the database      *)
(* advances with every call.                                               *)
(***************************************************************************)
\* calls of one store run
MaxCalls == 3

HostFault(key, kind) == [hosts |-> (key :> kind), tx |-> "none", inserts |-> {}]

InsertFault(i) == [hosts |-> <<>>, tx |-> "none", inserts |-> {i}]

\* what the database can do to a WriteBatch or UpsertInterfaces call
CallFaults ==
    {NoFaults, TxFault("begin"), TxFault("commit"), HostFault("h1", "upsert"),
     HostFault("h1", "select"), InsertFault(1)}

StatementFault(version, statement) ==
    [version |-> version, statement |-> statement, query |-> FALSE]

\* what the database can do to an Open: nothing, refuse the tracker table,
\* refuse a statement of a migration, fail the query of schemaExists
MigrationFaults ==
    {NoMigrationFault, StatementFault(0, 1), StatementFault(1, 2), StatementFault(1, 3),
     StatementFault(2, 1), [NoMigrationFault EXCEPT !.query = TRUE]}

\* an interface map as processInterfaceTable builds it
IfaceMap(ifIndex, name, oper) ==
    [if_index |-> GoString(Sprintf_d(ifIndex)), name |-> GoString(name),
     oper_status |-> GoString(oper)]

IfaceInput(hostKey, ifIndex, name, oper) ==
    InterfaceListToRecords(hostKey, hostKey, AddrY, <<IfaceMap(ifIndex, name, oper)>>)

\* the record lists given to UpsertInterfaces: one record, the same pair
\* twice, two hosts
IfaceInputs ==
    {IfaceInput(h, i, n, Up) : h \in {"h1", "h2"}, i \in {1, 2}, n \in {<<"e">>, <<"f">>}}
        \cup {IfaceInput("h1", 1, <<"e">>, Up) \o IfaceInput("h1", 1, <<"f">>, Down),
              IfaceInput("h1", 1, <<"e">>, Down) \o IfaceInput("h2", 1, <<"e">>, Up)}

MetricInput(hostKey, now) ==
    <<MetricRecord(hostKey, hostKey, AddrY,
                   StatusMetric("network", <<"p", "i", "n", "g">>, Up), now)>>

\* the record lists given to WriteBatch
MetricInputs(now) ==
    {<<>>, MetricInput("h1", now), MetricInput("h2", now),
     MetricInput("h1", now) \o MetricInput("h2", now)}

InitStore ==
    /\ NoSide
    /\ NoCollection
    /\ NoNormalization
    /\ NoCredential
    /\ NoPerception
    /\ db \in {[d EXCEPT !.dialect = x] : d \in {EmptyDatabase, LegacyDatabase}, x \in Dialects}
    /\ hostCache = <<>>
    /\ storeLog = StoreIdle
    /\ storeCall = NoCall
    /\ callers = <<>>
    /\ mu = 0

\* the database at the time of the next call
Later(database) == [database EXCEPT !.clock = @ + 1]

\* store.Open with a URL: openSQL, migrate
StoreOpen ==
    /\ db.clock < MaxCalls
    /\ \E fault \in MigrationFaults :
          LET m == migrate(Later(db), fault)
          IN  /\ db' = m.db
              /\ hostCache' = <<>>
              /\ storeCall' = [op |-> "open", open |-> ~m.err,
                               opens |-> storeCall.opens + (IF m.err THEN 0 ELSE 1),
                               records |-> <<>>,
                               faults |-> IF fault = NoMigrationFault THEN NoFaults
                                          ELSE TxFault("migrate"),
                               err |-> m.err]
    /\ UNCHANGED <<pc, storeLog, callers, mu, inputVars, configVars, workerVars,
                   finalResults, snapshot>>

StoreWriteBatch ==
    /\ db.clock < MaxCalls
    /\ storeCall.open
    /\ \E records \in MetricInputs(db.clock + 1), faults \in CallFaults :
          LET w == WriteBatch(Later(db), hostCache, records, faults)
          IN  /\ db' = w.db
              /\ hostCache' = w.hostCache
              /\ storeCall' = [storeCall EXCEPT !.op = "batch", !.records = records,
                                                !.faults = faults, !.err = w.err]
    /\ UNCHANGED <<pc, storeLog, callers, mu, inputVars, configVars, workerVars,
                   finalResults, snapshot>>

StoreUpsertInterfaces ==
    /\ db.clock < MaxCalls
    /\ storeCall.open
    /\ \E records \in IfaceInputs, faults \in CallFaults :
          LET w == UpsertInterfaces(Later(db), hostCache, records, faults)
          IN  /\ db' = w.db
              /\ hostCache' = w.hostCache
              /\ storeCall' = [storeCall EXCEPT !.op = "upsert", !.records = records,
                                                !.faults = faults, !.err = w.err]
    /\ UNCHANGED <<pc, storeLog, callers, mu, inputVars, configVars, workerVars,
                   finalResults, snapshot>>

NextStore ==
    \/ StoreOpen
    \/ StoreWriteBatch
    \/ StoreUpsertInterfaces

SpecStore == InitStore /\ [][NextStore]_vars

\* C15: an Open that succeeds leaves schema_migrations with exactly one row
\* per defined migration, and an Open after a successful one executes no
\* migration statement, records no migration, and succeeds when the database
\* refuses nothing.
C15_MigrationsAppliedOnce ==
    [][storeCall'.op = "open" =>
          /\ storeCall'.open =>
                /\ Len(db'.migrations) = Len(migrations)
                /\ AppliedVersions(db') = {migrations[i].version : i \in 1..Len(migrations)}
          /\ storeCall.opens >= 1 =>
                /\ db'.statements = db.statements
                /\ db'.migrations = db.migrations
                /\ storeCall'.faults = NoFaults => storeCall'.open]_vars

\* a second successful Open
C15_Witness == storeCall.op = "open" /\ storeCall.opens = 2

\* the tables, indexes and columns the statements of a migration create
ObjectsOf(m) == {m.up[i].object : i \in 1..Len(m.up)}

\* schema_migrations holds the first k defined versions, in ascending order
RecordedPrefix(database) ==
    /\ Len(database.migrations) <= Len(migrations)
    /\ \A i \in 1..Len(database.migrations) :
          database.migrations[i].version = migrations[i].version

\* C32: the recorded versions are always a prefix 1..k of the defined
\* migrations in ascending order; an Open that fails at migration v
\* returns an error, leaves v unrecorded and none of its statements applied,
\* keeps every lower version recorded and applied, and attempts no later
\* migration.
C32_FailedMigrationLeavesNothing ==
    /\ []RecordedPrefix(db)
    /\ [][storeCall'.op = "open" =>
            LET k == Len(db'.migrations)
                ran == SubSeq(db'.statements, Len(db.statements) + 1, Len(db'.statements))
            IN  /\ storeCall'.open => \A j \in 1..Len(ran) : ran[j].object \in db'.schema
                /\ (~storeCall'.open /\ ran # <<>>) =>
                      \A i \in 1..Len(migrations) :
                          ran[Len(ran)].object \in ObjectsOf(migrations[i]) =>
                              migrations[i].version \notin AppliedVersions(db')
                /\ SubSeq(db'.migrations, 1, Len(db.migrations)) = db.migrations
                /\ db.schema \subseteq db'.schema
                /\ db'.schema \subseteq
                      db.schema \cup {"schema_migrations"}
                          \cup UNION {ObjectsOf(migrations[i]) : i \in 1..k}
                /\ \A j \in 1..Len(ran) :
                      \E i \in 1..(k + 1) : ran[j].object \in ObjectsOf(migrations[i])]_vars

\* the statements the database was given since the state before
RanSince(before, after) ==
    {after.statements[j] : j \in (Len(before.statements) + 1)..Len(after.statements)}

\* every statement of a version was given to the database, none refused
ExecutedAll(m, before, after) ==
    /\ \A i \in 1..Len(m.up) : m.up[i] \in RanSince(before, after)
    /\ ObjectsOf(m) \subseteq after.schema

\* C33: an Open that the database refuses nothing, on a database with the
\* hosts table and without version 1, records version 1 without executing a
\* statement of it; every other version is recorded only together with the
\* execution of all of its statements; so a recorded version 1 means the
\* hosts and metrics tables exist.
C33_RecordedMeansApplied ==
    /\ [][storeCall'.op = "open" =>
            /\ ("hosts" \in db.schema /\ 1 \notin AppliedVersions(db)
                    /\ storeCall'.faults = NoFaults) =>
                  /\ 1 \in AppliedVersions(db')
                  /\ RanSince(db, db') \cap {v1Schema[i] : i \in 1..Len(v1Schema)} = {}
            /\ \A i \in 1..Len(migrations) :
                  (/\ migrations[i].version \in AppliedVersions(db') \ AppliedVersions(db)
                   /\ ~(migrations[i].version = 1 /\ "hosts" \in db.schema)) =>
                      ExecutedAll(migrations[i], db, db')]_vars
    /\ [](1 \in AppliedVersions(db) => {"hosts", "metrics"} \subseteq db.schema)

\* the records of the call that WriteBatch is to insert: the host was
\* resolved and the database takes the insert
KeptRecords ==
    {i \in 1..Len(storeCall'.records) :
        /\ storeCall'.records[i].host_key \in DOMAIN hostCache'
        /\ i \notin storeCall'.faults.inserts}

\* the j-th of them in the order of the input slice
NthKept(j) == CHOOSE i \in KeptRecords : Cardinality({k \in KeptRecords : k < i}) = j - 1

\* C34: a WriteBatch whose transaction begins and commits returns no error
\* and inserts every record whose host was resolved and whose insert the
\* database takes, in the order of the input slice, whatever happened to
\* the other records; an empty batch returns no error without a
\* transaction.
C34_RowFailuresDoNotAbortTheBatch ==
    [][storeCall'.op = "batch" =>
          LET new == SubSeq(db'.metrics, Len(db.metrics) + 1, Len(db'.metrics))
          IN  /\ storeCall'.records = <<>> =>
                    ~storeCall'.err /\ db'.metrics = db.metrics
              /\ (storeCall'.records # <<>> /\ storeCall'.faults.tx = "none") =>
                    /\ ~storeCall'.err
                    /\ Len(db'.metrics) >= Len(db.metrics)
                    /\ SubSeq(db'.metrics, 1, Len(db.metrics)) = db.metrics
                    /\ Len(new) = Cardinality(KeptRecords)
                    /\ \A j \in 1..Len(new) :
                          new[j] = MetricRow(hostCache'[storeCall'.records[NthKept(j)].host_key],
                                             storeCall'.records[NthKept(j)])]_vars

\* every record of the last call found its host, by the cache or the database
HostsResolved ==
    \A i \in 1..Len(storeCall.records) : storeCall.records[i].host_key \in DOMAIN hostCache

\* C17: after a WriteBatch or UpsertInterfaces call that resolved its hosts,
\* the hosts row of every host key of the records has the time of the call
\* as last_seen.
C17_TouchRefreshesLastSeen ==
    (storeCall.op \in {"batch", "upsert"} /\ HostsResolved) =>
        \A i \in 1..Len(storeCall.records) :
            \A j \in HostRowsOf(db, storeCall.records[i].host_key) :
                db.hosts[j].last_seen = db.clock

\* the metadata columns of an interfaces row or of an interface record
Metadata(r) ==
    <<r.name, r.alias, r.type, r.speed, r.mac_address, r.admin_status, r.oper_status>>

\* the last record of the call for the pair of a row
LastRecordFor(row) ==
    LET key(i) == storeCall'.records[i].host_key
        S == {i \in 1..Len(storeCall'.records) :
                 /\ key(i) \in DOMAIN hostCache'
                 /\ hostCache'[key(i)] = row.host_id
                 /\ storeCall'.records[i].if_index = row.if_index}
    IN  IF S = {} THEN 0 ELSE CHOOSE i \in S : \A j \in S : j <= i

\* C18: after every UpsertInterfaces call the interfaces table has at most
\* one row per (host_id, if_index); the rows that were there keep their
\* pair and their first_seen; and when nothing failed the row of a pair of
\* the call carries the metadata of the last record for the pair.
C18_InterfacesUpsert ==
    [][storeCall'.op = "upsert" =>
          /\ \A i, j \in 1..Len(db'.interfaces) :
                (/\ db'.interfaces[i].host_id = db'.interfaces[j].host_id
                 /\ db'.interfaces[i].if_index = db'.interfaces[j].if_index) => i = j
          /\ Len(db'.interfaces) >= Len(db.interfaces)
          /\ \A i \in 1..Len(db.interfaces) :
                /\ db'.interfaces[i].host_id = db.interfaces[i].host_id
                /\ db'.interfaces[i].if_index = db.interfaces[i].if_index
                /\ db'.interfaces[i].first_seen = db.interfaces[i].first_seen
          /\ storeCall'.faults = NoFaults =>
                \A i \in 1..Len(db'.interfaces) :
                    LastRecordFor(db'.interfaces[i]) # 0 =>
                        Metadata(db'.interfaces[i])
                            = Metadata(storeCall'.records[LastRecordFor(db'.interfaces[i])])]_vars

\* an upsert changed the name of a row that an earlier call had inserted
C18_Witness ==
    /\ storeCall.op = "upsert"
    /\ storeCall.faults = NoFaults
    /\ \E i \in 1..Len(db.interfaces) :
          /\ db.interfaces[i].first_seen < db.interfaces[i].last_seen
          /\ db.interfaces[i].last_seen = db.clock
          /\ db.interfaces[i].name = <<"f">>

(***************************************************************************)
(* ensureHost runs: concurrent calls of ensureHost on one Store, each a     *)
(* sequence of steps: Lock, the cache lookup, the upsert, the id query and  *)
(* the cache store, and the deferred Unlock.                               *)
(***************************************************************************)
\* concurrent callers of one ensureHost run
MaxCallers == 3

Callers == 1..MaxCallers

\* a call: its position, its key, what the database does to it ("none",
\* "upsert": the upsert fails, "select": the id query fails), the order in
\* which it took the mutex, and what it did and returned
NewCall(key, fault) ==
    [pc |-> "start", key |-> key, fault |-> fault, ticket |-> 0, touched |-> FALSE,
     upserted |-> FALSE, ok |-> FALSE, id |-> 0]

InitEnsure ==
    /\ NoSide
    /\ NoCollection
    /\ NoNormalization
    /\ NoCredential
    /\ NoPerception
    /\ db = OpenedDatabase
    /\ hostCache = <<>>
    /\ storeLog = StoreIdle
    /\ storeCall = NoCall
    /\ callers \in [Callers -> {NewCall(k, f) : k \in {"h1", "h2"},
                                               f \in {"none", "upsert", "select"}}]
    /\ mu = 0

\* a mutex that any number of callers can take
LockableAlways(holder) == TRUE

\* sync.Mutex: Lock goes through when no caller holds the mutex
Lockable(holder) == holder = 0

EnsureUnchanged ==
    UNCHANGED <<pc, storeLog, storeCall, inputVars, configVars, workerVars,
                finalResults, snapshot>>

\* s.mu.Lock()
EnsureLock(c) ==
    /\ callers[c].pc = "start"
    /\ Lockable(mu)
    /\ mu' = c
    /\ callers' = [callers EXCEPT
                      ![c].pc = "locked",
                      ![c].ticket = 1 + Cardinality({d \in Callers : callers[d].pc # "start"})]
    /\ UNCHANGED <<db, hostCache>>
    /\ EnsureUnchanged

\* if id, ok := s.hostCache[key]; ok { return id, nil }
EnsureLookup(c) ==
    /\ callers[c].pc = "locked"
    /\ callers' = IF callers[c].key \in DOMAIN hostCache
                  THEN [callers EXCEPT ![c].pc = "return", ![c].ok = TRUE,
                                       ![c].id = hostCache[callers[c].key]]
                  ELSE [callers EXCEPT ![c].pc = "upsert"]
    /\ UNCHANGED <<db, hostCache, mu>>
    /\ EnsureUnchanged

\* s.db.Exec(upsertQ, key, name, address)
EnsureUpsert(c) ==
    /\ callers[c].pc = "upsert"
    /\ IF callers[c].fault = "upsert"
       THEN /\ callers' = [callers EXCEPT ![c].pc = "return", ![c].touched = TRUE]
            /\ UNCHANGED db
       ELSE /\ callers' = [callers EXCEPT ![c].pc = "select", ![c].touched = TRUE,
                                          ![c].upserted = TRUE]
            /\ db' = UpsertHost(db, callers[c].key, callers[c].key, <<>>)
    /\ UNCHANGED <<hostCache, mu>>
    /\ EnsureUnchanged

\* s.db.QueryRow(selectQ, key).Scan(&id); s.hostCache[key] = id
EnsureSelect(c) ==
    /\ callers[c].pc = "select"
    /\ IF callers[c].fault = "select"
       THEN /\ callers' = [callers EXCEPT ![c].pc = "return"]
            /\ UNCHANGED hostCache
       ELSE /\ callers' = [callers EXCEPT ![c].pc = "return", ![c].ok = TRUE,
                                          ![c].id = SelectHostId(db, callers[c].key)]
            /\ hostCache' = (callers[c].key :> SelectHostId(db, callers[c].key)) @@ hostCache
    /\ UNCHANGED <<db, mu>>
    /\ EnsureUnchanged

\* defer s.mu.Unlock()
EnsureUnlock(c) ==
    /\ callers[c].pc = "return"
    /\ mu' = 0
    /\ callers' = [callers EXCEPT ![c].pc = "done"]
    /\ UNCHANGED <<db, hostCache>>
    /\ EnsureUnchanged

NextEnsure ==
    \/ \E c \in Callers : EnsureLock(c)
    \/ \E c \in Callers : EnsureLookup(c)
    \/ \E c \in Callers : EnsureUpsert(c)
    \/ \E c \in Callers : EnsureSelect(c)
    \/ \E c \in Callers : EnsureUnlock(c)

SpecEnsure == InitEnsure /\ [][NextEnsure]_vars

\* the calls for the key of call c that took the mutex before c did
EarlierCalls(c) ==
    {d \in DOMAIN callers : /\ callers[d].key = callers[c].key
                            /\ callers[d].ticket # 0
                            /\ callers[d].ticket < callers[c].ticket}

\* once a call for a key has succeeded no later call for it touches the
\* database
NoTouchAfterSuccess ==
    \A c \in DOMAIN callers :
        (\E d \in EarlierCalls(c) : callers[d].ok) => ~callers[c].touched

\* the calls that succeeded for a key return the same id
SameIdPerKey ==
    \A c, d \in DOMAIN callers :
        (callers[c].ok /\ callers[d].ok /\ callers[c].key = callers[d].key)
            => callers[c].id = callers[d].id

\* a key is in the cache only when a call for it got as far as the cache
\* store, which is the last thing a successful call does
FailedCallCachesNothing ==
    \A k \in DOMAIN hostCache :
        \E c \in DOMAIN callers :
            callers[c].key = k /\ callers[c].ok /\ callers[c].id = hostCache[k]

MaxStream == 2

Runes == {"#", "a"}

Patterns == {<<"#">>, <<"#", "|", ">">>, <<" ", "a", " ">>, <<"(">>, <<>>}

RECURSIVE StreamsUpTo(_)
StreamsUpTo(n) ==
    IF n = 0 THEN {<<>>}
    ELSE StreamsUpTo(n - 1) \cup {Append(st, r) : st \in StreamsUpTo(n - 1), r \in Runes}

\* regexp.Compile: an unclosed group is a syntax error
Compiles(pattern) == \A i \in 1..Len(pattern) : pattern[i] # "("

\* strings.Contains
Contains(str, sub) ==
    \E i \in 0..(Len(str) - Len(sub)) : SubSeq(str, i + 1, i + Len(sub)) = sub

\* re.MatchString: some alternative occurs in the string
MatchString(pattern, str) ==
    \E k \in 1..Len(Split(pattern, "|")) : Contains(str, Split(pattern, "|")[k])

NewSession(pattern, stream, ending) ==
    [pc |-> "call", pattern |-> pattern, stream |-> stream, ending |-> ending,
     read |-> 0, output |-> <<>>, reader |-> "off", timer |-> FALSE,
     out |-> <<>>, err |-> "none"]

InitWait ==
    /\ ifaceRun = <<>>
    /\ sshRun = <<>>
    /\ tableWalk = <<>>
    /\ ticksRun = <<>>
    /\ mailRun = <<>>
    /\ probeRun = <<>>
    /\ valueRun = <<>>
    /\ shell = <<>>
    /\ NoCollection
    /\ NoStore
    /\ NoNormalization
    /\ NoCredential
    /\ NoPerception
    /\ session \in {NewSession(p, st, e) : p \in Patterns, st \in StreamsUpTo(MaxStream),
                                            e \in {"eof", "silent"}}

WaitUnchanged ==
    UNCHANGED <<pc, ifaceRun, sshRun, tableWalk, ticksRun, mailRun, probeRun, valueRun, shell,
                configFile, perceptionFile, configVars, workerVars,
                finalResults, snapshot, storeVars, normVars, credVars,
                perceptionVars>>

\* strings.TrimSpace, regexp.Compile, go func() {...}()
WaitStart ==
    /\ session.pc = "call"
    /\ session' = IF Compiles(TrimSpace(session.pattern))
                  THEN [session EXCEPT !.pc = "select", !.reader = "reading"]
                  ELSE [session EXCEPT !.pc = "returned", !.err = "pattern"]
    /\ WaitUnchanged

\* a reader that never tests the output
AfterRuneNoTest(pattern, output) == "reading"

\* the reader after output.WriteRune: matchChan <- true on a match
AfterRune(pattern, output) == IF MatchString(pattern, output) THEN "matched" ELSE "reading"

\* the reader goroutine: one ReadRune; at the end of a stream that ends,
\* errChan <- err
ReaderReadRune ==
    /\ session.reader = "reading"
    /\ IF session.read < Len(session.stream)
       THEN session' =
               [session EXCEPT
                   !.read = @ + 1,
                   !.output = Append(@, session.stream[session.read + 1]),
                   !.reader = AfterRune(TrimSpace(session.pattern),
                                        Append(session.output,
                                               session.stream[session.read + 1]))]
       ELSE /\ session.ending = "eof"
            /\ session' = [session EXCEPT !.reader = "failed"]
    /\ WaitUnchanged

\* time.After(15 * time.Second) delivers
TimerFires ==
    /\ session.pc = "select"
    /\ ~session.timer
    /\ session' = [session EXCEPT !.timer = TRUE]
    /\ WaitUnchanged

\* the cases of the select that can proceed
ReadyCases ==
    (IF session.reader = "matched" THEN {"nil"} ELSE {})
        \cup (IF session.reader = "failed" THEN {"io"} ELSE {})
        \cup (IF session.timer THEN {"timeout"} ELSE {})

\* select: one of the ready cases, return output.String() and its error
WaitReturn ==
    /\ session.pc = "select"
    /\ \E case \in ReadyCases :
          session' = [session EXCEPT !.pc = "returned", !.out = session.output,
                                     !.err = case]
    /\ WaitUnchanged

NextWait ==
    \/ WaitStart
    \/ ReaderReadRune
    \/ TimerFires
    \/ WaitReturn

SpecWait == InitWait /\ [][NextWait]_vars

\* the first n runes of a string
Prefix(str, n) == SubSeq(str, 1, n)

StrayPdu == Pdu(CellName(<<"5">>, <<"3">>), "Integer", GoNum("int", 1))

\* the PDUs of the agent's walk at the given positions, in walk order
RECURSIVE PdusAt(_, _)
PdusAt(pdus, S) ==
    IF pdus = <<>> THEN <<>>
    ELSE (IF Len(pdus) \in S THEN PdusAt(SubSeq(pdus, 1, Len(pdus) - 1), S) \o <<pdus[Len(pdus)]>>
          ELSE PdusAt(SubSeq(pdus, 1, Len(pdus) - 1), S))

InitTable ==
    /\ ifaceRun = <<>>
    /\ sshRun = <<>>
    /\ session = <<>>
    /\ ticksRun = <<>>
    /\ mailRun = <<>>
    /\ probeRun = <<>>
    /\ valueRun = <<>>
    /\ shell = <<>>
    /\ NoCollection
    /\ NoStore
    /\ NoNormalization
    /\ NoCredential
    /\ NoPerception
    /\ \E S \in SUBSET (1..Len(AgentWalks[IfTable.base_oid])), stray \in BOOLEAN :
          tableWalk = [pc |-> "walk",
                       pdus |-> PdusAt(AgentWalks[IfTable.base_oid], S)
                                   \o (IF stray THEN <<StrayPdu>> ELSE <<>>),
                       rows |-> <<>>, interfaces |-> <<>>, metrics |-> <<>>]

TableUnchanged ==
    UNCHANGED <<pc, ifaceRun, sshRun, session, ticksRun, mailRun, probeRun, valueRun, shell,
                configFile, perceptionFile, configVars, workerVars,
                finalResults, snapshot, storeVars, normVars, credVars,
                perceptionVars>>

\* walkTable
TableWalk ==
    /\ tableWalk.pc = "walk"
    /\ tableWalk' = [tableWalk EXCEPT !.pc = "rows",
                                      !.rows = walkTable(tableWalk.pdus, IfTable)]
    /\ TableUnchanged

\* processInterfaceTable, in one of the orders of its map iterations
TableProcess ==
    /\ tableWalk.pc = "rows"
    /\ \E rowOrder \in Orders(DOMAIN tableWalk.rows) :
       \E colOrder \in [DOMAIN tableWalk.rows ->
                           UNION {Orders(DOMAIN tableWalk.rows[r]) : r \in DOMAIN tableWalk.rows}] :
          /\ \A r \in DOMAIN tableWalk.rows : colOrder[r] \in Orders(DOMAIN tableWalk.rows[r])
          /\ LET out == processInterfaceTable(tableWalk.rows, IfTable, rowOrder, colOrder)
             IN  tableWalk' = [tableWalk EXCEPT !.pc = "done",
                                                !.interfaces = out.interfaces,
                                                !.metrics = out.metrics]
    /\ TableUnchanged

NextTable ==
    \/ TableWalk
    \/ TableProcess

SpecTable == InitTable /\ [][NextTable]_vars

\* the walk has a PDU of column col for row index r
HasCell(col, r) ==
    \E i \in 1..Len(tableWalk.pdus) : tableWalk.pdus[i].name = CellName(col.sub_oid, r)

\* the row indexes of the walk that have a PDU of a defined column
WalkedRows ==
    {r \in {<<"1">>, <<"2">>, <<"3">>} :
        \E k \in 1..Len(IfTable.columns) : HasCell(IfTable.columns[k], r)}

\* the fields of the interface of row r: if_index and one field per column
\* of an interface role that the walk has for the row
FieldsOf(r) ==
    {"if_index"} \cup
        {IfaceField(IfTable.columns[k].role) :
            k \in {j \in 1..Len(IfTable.columns) :
                      /\ IfTable.columns[j].role \in IfaceRoles
                      /\ HasCell(IfTable.columns[j], r)}}

\* C20: every row index with at least one PDU of a defined column yields
\* exactly one interface, which carries the row index as if_index and the
\* fields of the columns that are there and no others; there is no other
\* interface.
C20_EveryRowYieldsOneInterface ==
    tableWalk.pc = "done" =>
        /\ Len(tableWalk.interfaces) = Cardinality(WalkedRows)
        /\ \A r \in WalkedRows :
              \E i \in 1..Len(tableWalk.interfaces) :
                  /\ tableWalk.interfaces[i]["if_index"] = GoString(r)
                  /\ DOMAIN tableWalk.interfaces[i] = FieldsOf(r)
                  /\ \A j \in 1..Len(tableWalk.interfaces) :
                        tableWalk.interfaces[j]["if_index"] = GoString(r) => j = i

\* a row without its name column gave an interface with the status it has
C20_Witness ==
    /\ tableWalk.pc = "done"
    /\ \E i \in 1..Len(tableWalk.interfaces) :
          /\ "name" \notin DOMAIN tableWalk.interfaces[i]
          /\ "oper_status" \in DOMAIN tableWalk.interfaces[i]

\* the formatted value of the walk's PDU of column col for row index r
CellValue(col, r) ==
    LET i == CHOOSE k \in 1..Len(tableWalk.pdus) :
                 tableWalk.pdus[k].name = CellName(col.sub_oid, r)
    IN  formatValue(tableWalk.pdus[i], col.format)

\* the instance a counter metric of row r is to carry: the name of the row
\* when its name column is there and not empty, the row index otherwise
InstanceOf(r) ==
    IF HasCell(ColDescr, r) /\ CellValue(ColDescr, r).type = "string"
                            /\ CellValue(ColDescr, r).str # <<>>
    THEN CellValue(ColDescr, r) ELSE GoString(r)

\* C28: every counter metric of a row with a non-empty name column carries
\* that name as instance, whatever the order of the column PDUs; only a row
\* without a name carries the row index
C28_CountersCarryTheRowName ==
    tableWalk.pc = "done" =>
        \A r \in WalkedRows : \A key \in DOMAIN tableWalk.metrics :
            tableWalk.metrics[key].oid = CellName(ColInOctets.sub_oid, r) =>
                tableWalk.metrics[key].instance = InstanceOf(r)

(***************************************************************************)
(* Timeticks runs: the SNMP collector formats a TimeTicks value with the   *)
(* "timeticks" format and the store parses the text back to seconds.       *)
(***************************************************************************)

\* whole seconds below MaxTickSeconds, and the seconds on both sides of
\* minute, hour and day boundaries up to the largest tick count that the
\* integers of the model hold (2^31 - 1, the lower half of the uint32 range;
\* time.Duration(ticks) * 10 * time.Millisecond stays below 2^63 for every
\* uint32, so the Go arithmetic is the same in the upper half)
MaxTickSeconds == 130
LastSeconds == 2147483647 \div TicksPerSecond

BoundarySeconds ==
    {d * 86400 + h * 3600 + m * 60 + s :
        d \in {0, 1, 2, 99, 247, 248}, h \in {0, 1, 23},
        m \in {0, 1, 59}, s \in {0, 1, 59}}

TickSeconds ==
    {n \in (0..MaxTickSeconds) \cup BoundarySeconds \cup {LastSeconds} :
        n <= LastSeconds}

InitTicks ==
    /\ ifaceRun = <<>>
    /\ sshRun = <<>>
    /\ session = <<>>
    /\ tableWalk = <<>>
    /\ mailRun = <<>>
    /\ probeRun = <<>>
    /\ valueRun = <<>>
    /\ shell = <<>>
    /\ NoCollection
    /\ NoStore
    /\ NoNormalization
    /\ NoCredential
    /\ NoPerception
    /\ \E n \in TickSeconds :
          ticksRun = [pc |-> "value", n |-> n,
                      ticks |-> n * TicksPerSecond,
                      text |-> <<>>, parsed |-> [total |-> 0, ok |-> FALSE]]

TicksUnchanged ==
    UNCHANGED <<pc, ifaceRun, sshRun, session, tableWalk, mailRun, probeRun, valueRun, shell,
                configFile, perceptionFile, configVars, workerVars,
                finalResults, snapshot, storeVars, normVars, credVars,
                perceptionVars>>

\* formatValue on the TimeTicks variable of the agent's answer
TicksFormat ==
    /\ ticksRun # <<>>
    /\ ticksRun.pc = "value"
    /\ ticksRun' = [ticksRun EXCEPT
          !.pc = "formatted",
          !.text = formatValue([type |-> "TimeTicks",
                                value |-> GoNum("uint32", ticksRun.ticks)],
                               "timeticks").str]
    /\ TicksUnchanged

\* parseDuration on the formatted text
TicksParse ==
    /\ ticksRun # <<>>
    /\ ticksRun.pc = "formatted"
    /\ ticksRun' = [ticksRun EXCEPT !.pc = "parsed",
                                    !.parsed = parseDuration(ticksRun.text)]
    /\ TicksUnchanged

NextTicks == TicksFormat \/ TicksParse

SpecTicks == InitTicks /\ [][NextTicks]_vars

\* the four numbers of a formatted text "Nd Nh Nm Ns"
TickParts(text) ==
    LET matches == FindDurations(text, 1)
    IN  [i \in 1..Len(matches) |-> AtoiFrom(0, matches[i].num)]

TickUnits(text) ==
    LET matches == FindDurations(text, 1)
    IN  [i \in 1..Len(matches) |-> matches[i].unit]

\* C21: formatting n * 100 timeticks and parsing the text with parseDuration
\* gives back n, with hours below 24, minutes below 60 and seconds below 60;
\* 8640000 ticks are formatted as "1d 0h 0m 0s"
C21_TimeticksRoundTrip ==
    /\ (ticksRun # <<>> /\ ticksRun.pc = "parsed") =>
          /\ ticksRun.parsed = [total |-> ticksRun.n, ok |-> TRUE]
          /\ TickUnits(ticksRun.text) = <<"d", "h", "m", "s">>
          /\ TickParts(ticksRun.text)[2] < 24
          /\ TickParts(ticksRun.text)[3] < 60
          /\ TickParts(ticksRun.text)[4] < 60
    /\ (ticksRun # <<>> /\ ticksRun.pc # "value" /\ ticksRun.ticks = 8640000) =>
          ticksRun.text = <<"1", "d", " ", "0", "h", " ", "0", "m", " ", "0", "s">>

\* the largest whole number of seconds a uint32 tick count holds has been
\* formatted with non-zero days, hours, minutes and seconds and parsed back
C21_Witness ==
    /\ ticksRun # <<>>
    /\ ticksRun.pc = "parsed"
    /\ ticksRun.n = LastSeconds
    /\ \A i \in 1..4 : TickParts(ticksRun.text)[i] > 0

(***************************************************************************)
(* Mail command runs: mailPlugin.OnCommand runs the processes of a control  *)
(* action one after the other; every cmd.Run() is one step.                *)
(***************************************************************************)

\* the arguments of the processes OnCommand builds for an action (all of
\* them run through sudo); an empty list is an unknown action
MailCommands(action) ==
    CASE action = "pause" ->
            <<<<"postconf", "-e", "defer_transports=smtp">>, <<"postfix", "reload">>>>
      [] action = "unpause" ->
            <<<<"postconf", "-e", "defer_transports=">>, <<"postfix", "reload">>,
              <<"postfix", "flush">>>>
      [] action = "start" -> <<<<"systemctl", "start", "postfix">>>>
      [] action = "stop" -> <<<<"systemctl", "stop", "postfix">>>>
      [] OTHER -> <<>>

MailActions == {"pause", "unpause", "start", "stop", "restart", ""}

\* what cmd.Run() returns: the exit status of the process, or StartFailed
\* when the process could not be started; everything but 0 is an error
StartFailed == 0 - 1
RunOutcomes == {0, 1, StartFailed}

\* the Postfix installation the processes act on
MaxQueue == 2
PostfixStates ==
    [main_cf : {"smtp", ""}, loaded : {"smtp", ""}, queue : 0..MaxQueue,
     running : BOOLEAN]

\* the effect of a process that exits with status 0
Effect(cmd, postfix) ==
    CASE cmd = <<"postconf", "-e", "defer_transports=smtp">> ->
            [postfix EXCEPT !.main_cf = "smtp"]
      [] cmd = <<"postconf", "-e", "defer_transports=">> ->
            [postfix EXCEPT !.main_cf = ""]
      [] cmd = <<"postfix", "reload">> -> [postfix EXCEPT !.loaded = postfix.main_cf]
      [] cmd = <<"postfix", "flush">> ->
            [postfix EXCEPT !.queue = IF postfix.loaded = "" THEN 0 ELSE @]
      [] cmd = <<"systemctl", "start", "postfix">> -> [postfix EXCEPT !.running = TRUE]
      [] cmd = <<"systemctl", "stop", "postfix">> -> [postfix EXCEPT !.running = FALSE]

\* the loop of runCommands (and the single cmd.Run() of start and stop): the
\* index of the process to run after the ones in log, 0 to return
NextCommandIgnoringErrors(cmds, log) ==
    IF Len(log) < Len(cmds) THEN Len(log) + 1 ELSE 0

NextCommand(cmds, log) ==
    IF log # <<>> /\ log[Len(log)].status # 0 THEN 0
    ELSE IF Len(log) < Len(cmds) THEN Len(log) + 1
    ELSE 0

\* the error OnCommand returns after the processes in log
MailError(action, log) ==
    IF MailCommands(action) = <<>> THEN [kind |-> "unknown action", status |-> 0]
    ELSE IF log # <<>> /\ log[Len(log)].status # 0
    THEN [kind |-> "run", status |-> log[Len(log)].status]
    ELSE [kind |-> "nil", status |-> 0]

InitMail ==
    /\ ifaceRun = <<>>
    /\ sshRun = <<>>
    /\ session = <<>>
    /\ tableWalk = <<>>
    /\ ticksRun = <<>>
    /\ probeRun = <<>>
    /\ valueRun = <<>>
    /\ shell = <<>>
    /\ NoCollection
    /\ NoStore
    /\ NoNormalization
    /\ NoCredential
    /\ NoPerception
    /\ \E action \in MailActions, postfix \in PostfixStates :
          mailRun = [pc |-> "running", action |-> action, log |-> <<>>,
                     err |-> [kind |-> "nil", status |-> 0], postfix |-> postfix]

MailUnchanged ==
    UNCHANGED <<pc, ifaceRun, sshRun, session, tableWalk, ticksRun, probeRun, valueRun, shell,
                configFile, perceptionFile, configVars, workerVars,
                finalResults, snapshot, storeVars, normVars, credVars,
                perceptionVars>>

\* one cmd.Run(): the next process is started and waited for
MailRun ==
    /\ mailRun # <<>>
    /\ mailRun.pc = "running"
    /\ LET cmds == MailCommands(mailRun.action)
           i == NextCommand(cmds, mailRun.log)
       IN  /\ i # 0
           /\ \E status \in RunOutcomes :
                 mailRun' = [mailRun EXCEPT
                    !.log = Append(@, [cmd |-> cmds[i], status |-> status]),
                    !.postfix = IF status = 0 THEN Effect(cmds[i], @) ELSE @]
    /\ MailUnchanged

\* OnCommand returns: unknown action, first error, or nil after the last one
MailReturn ==
    /\ mailRun # <<>>
    /\ mailRun.pc = "running"
    /\ NextCommand(MailCommands(mailRun.action), mailRun.log) = 0
    /\ mailRun' = [mailRun EXCEPT !.pc = "returned",
                                  !.err = MailError(mailRun.action, mailRun.log)]
    /\ MailUnchanged

NextMail == MailRun \/ MailReturn

SpecMail == InitMail /\ [][NextMail]_vars

\* C22: the processes of a mail control command run in the fixed order of the
\* command, a process is started only when every earlier one exited with
\* status zero, and the command returns the first failure as its error
C22_MailCommandsRunInOrder ==
    mailRun # <<>> =>
       LET cmds == MailCommands(mailRun.action)
           log == mailRun.log
       IN  /\ Len(log) <= Len(cmds)
           /\ \A i \in 1..Len(log) :
                 /\ log[i].cmd = cmds[i]
                 /\ \A j \in 1..(i - 1) : log[j].status = 0
           /\ mailRun.pc = "returned" /\ cmds # <<>> =>
                 IF \E i \in 1..Len(log) : log[i].status # 0
                 THEN mailRun.err = [kind |-> "run", status |-> log[Len(log)].status]
                 ELSE mailRun.err.kind = "nil" /\ Len(log) = Len(cmds)

\* unpause returned the failure of its second process and never ran the third
C22_Witness ==
    /\ mailRun # <<>>
    /\ mailRun.pc = "returned"
    /\ mailRun.action = "unpause"
    /\ Len(mailRun.log) = 2
    /\ mailRun.log[1].status = 0
    /\ mailRun.log[2].status = 1
    /\ mailRun.err = [kind |-> "run", status |-> 1]

(***************************************************************************)
(* Network probe runs: networkPlugin.OnCollect for one action, one host    *)
(* map and one set of ports that accept a TCP connection at the address.   *)
(***************************************************************************)
Port22 == <<"2", "2">>
Port80 == <<"8", "0">>
Port443 == <<"4", "4", "3">>
Port2222 == <<"2", "2", "2", "2">>

\* host["port"].(string), "22" when the assertion fails or gives ""
SshPort(host) ==
    LET port == AsString(host, "port")
    IN  IF port = <<>> THEN Port22 ELSE port

\* the ports an action dials, in the order of the || chain; <<>> for an
\* action the switch does not know
ProbePortsFirstOnly(action, host) ==
    CASE action = <<"s", "s", "h">> -> <<SshPort(host)>>
      [] action = <<"u", "r", "l">> -> <<Port80>>
      [] action = <<"p", "i", "n", "g">> -> <<Port80>>
      [] OTHER -> <<>>

ProbePorts(action, host) ==
    CASE action = <<"s", "s", "h">> -> <<SshPort(host)>>
      [] action = <<"u", "r", "l">> -> <<Port80, Port443>>
      [] action = <<"p", "i", "n", "g">> -> <<Port80, Port22>>
      [] OTHER -> <<>>

ProbeLabel(action, host) ==
    CASE action = <<"s", "s", "h">> -> <<"S", "S", "H", "-">> \o SshPort(host)
      [] action = <<"u", "r", "l">> -> <<"U", "R", "L">>
      [] OTHER -> action

ProbeCategory(action) == IF action = <<"u", "r", "l">> THEN "Web" ELSE "network"

\* isPortOpen: the dial succeeds when the port is one of the listening ones
isPortOpen(listening, port) == port \in listening

networkOnCollect(action, host, listening) ==
    LET ports == ProbePorts(action, host)
        status == \E i \in 1..Len(ports) : isPortOpen(listening, ports[i])
        label == ProbeLabel(action, host)
    IN  IF ports = <<>>
        THEN [kind |-> "err", metrics |-> <<>>, interfaces |-> <<>>]
        ELSE OkResult(label, StatusMetric(ProbeCategory(action), label,
                                          IF status THEN Up ELSE Down))

\* host maps: no port, a port as a string (empty or not), a port as a number
ProbeHosts ==
    {[address |-> GoString(AddrX)]}
    \cup {[address |-> GoString(AddrX), port |-> p] :
            p \in {GoString(<<>>), GoString(Port2222), GoString(Port80),
                   GoNum("float64", 2222), GoNum("float64", 22)}}

ProbeActions ==
    {<<"s", "s", "h">>, <<"u", "r", "l">>, <<"p", "i", "n", "g">>,
     <<"S", "S", "H">>, <<"a", "l", "l">>, <<>>}

InitProbe ==
    /\ ifaceRun = <<>>
    /\ sshRun = <<>>
    /\ session = <<>>
    /\ tableWalk = <<>>
    /\ ticksRun = <<>>
    /\ mailRun = <<>>
    /\ valueRun = <<>>
    /\ shell = <<>>
    /\ NoCollection
    /\ NoStore
    /\ NoNormalization
    /\ NoCredential
    /\ NoPerception
    /\ \E action \in ProbeActions, host \in ProbeHosts,
          listening \in SUBSET {Port22, Port80, Port443, Port2222} :
          probeRun = [pc |-> "call", action |-> action, host |-> host,
                      listening |-> listening,
                      result |-> [kind |-> "nil", metrics |-> <<>>, interfaces |-> <<>>]]

ProbeCollect ==
    /\ probeRun # <<>>
    /\ probeRun.pc = "call"
    /\ probeRun' = [probeRun EXCEPT
          !.pc = "returned",
          !.result = networkOnCollect(probeRun.action, probeRun.host,
                                      probeRun.listening)]
    /\ UNCHANGED <<pc, ifaceRun, sshRun, session, tableWalk, ticksRun, mailRun, valueRun, shell,
                   configFile, perceptionFile, configVars, workerVars,
                   finalResults, snapshot, storeVars, normVars, credVars,
                   perceptionVars>>

NextProbe == ProbeCollect

SpecProbe == InitProbe /\ [][NextProbe]_vars

\* the port of the host map written as text, whatever its type
HostPortText(host) ==
    IF "port" \notin DOMAIN host THEN <<>>
    ELSE IF host.port.type = "string" THEN host.port.str
    ELSE Sprintf_d(host.port.num)

\* the ports the probe of an action is about, ssh probing the port given
ActionPorts(action, host, sshPort) ==
    CASE action = <<"s", "s", "h">> -> {sshPort}
      [] action = <<"u", "r", "l">> -> {Port80, Port443}
      [] action = <<"p", "i", "n", "g">> -> {Port80, Port22}
      [] OTHER -> {}

\* one status metric, up exactly when one of the ports listens; an error and
\* no metric for any other action
ProbeAnswers(sshPort) ==
    LET r == probeRun.result
        ports == ActionPorts(probeRun.action, probeRun.host, sshPort)
    IN  IF ports = {}
        THEN r.kind = "err" /\ r.metrics = <<>>
        ELSE /\ r.kind = "ok"
             /\ Cardinality(DOMAIN r.metrics) = 1
             /\ \A l \in DOMAIN r.metrics :
                   /\ r.metrics[l].type = "status"
                   /\ r.metrics[l].value \in {GoString(Up), GoString(Down)}
                   /\ r.metrics[l].value = GoString(Up)
                         <=> (ports \cap probeRun.listening # {})

MaxDetection == 2

CommandNames == {<<"n">>, <<"N">>, <<"s">>, <<"z">>}

\* detection probes: "<plugin>.<action>", one of them without an action
Probes == {mP, <<"n", ".", "p">>, mR, mE, m0, mZ, <<"n">>}

LiveIPs == {"h2", "h3"}

IpAddress(ip) == <<ip>>

InitPerception ==
    /\ NoSide
    /\ ppc = "command"
    /\ commandName \in CommandNames
    /\ detection \in SeqsUpTo(Probes, MaxDetection)
    /\ liveHosts \in SUBSET LiveIPs
    /\ discoveredHosts = <<>>
    /\ inventory = NoFile
    /\ lookups = {}
    /\ \E attached \in BOOLEAN :
          perceptionStore = [NoPerceptionStore EXCEPT !.attached = attached]
    /\ NoCollection
    /\ NoStore
    /\ NoNormalization
    /\ NoCredential

\* Controller.OnCommand(commandName, {action: perception}); only the network
\* plugin knows the perception action
OnCommand ==
    /\ ppc = "command"
    /\ lookups' = lookups \cup
          {[site |-> "OnCommand", name |-> commandName,
            found |-> ToLower(commandName) \in Plugins]}
    /\ ppc' = IF ToLower(commandName) \notin Plugins THEN "notfound"
              ELSE IF ToLower(commandName) = <<"n">> THEN "scan"
              ELSE "unknowncommand"
    /\ UNCHANGED <<commandName, detection, liveHosts, discoveredHosts, inventory,
                   perceptionStore, pc, configFile, perceptionFile, configVars, workerVars,
                   finalResults, snapshot, storeVars, sideVars,
                   normVars, credVars>>

\* the registry lookup of testHost: the probe's plugin name as written
ProbePluginKey(pluginName) == pluginName

ProbeFound(pluginName) == ProbePluginKey(pluginName) \in Plugins

\* a loop that keeps every probe whose call succeeded, whatever it returned
ProbePassesAnyValue(test) ==
    LET parts == Split(test, ".")
    IN  /\ Len(parts) >= 2
        /\ ProbeFound(parts[1])
        /\ OnCollect(parts[1], parts[2]).kind # "err"

\* one iteration of testHost's loop: whether the probe is kept
ProbePasses(test) ==
    LET parts == Split(test, ".")
    IN  /\ Len(parts) >= 2
        /\ ProbeFound(parts[1])
        /\ LET result == OnCollect(parts[1], parts[2])
           IN  /\ result.kind # "err"
               /\ \E label \in DOMAIN result.metrics : AsString(result.metrics[label], "value") = Up

testHost(ip, tests) == SelectSeq(tests, ProbePasses)

ProbeLookups(tests) ==
    {[site |-> "testHost", name |-> Split(tests[i], ".")[1],
      found |-> ProbeFound(Split(tests[i], ".")[1])] :
        i \in {j \in 1..Len(tests) : Len(Split(tests[j], ".")) >= 2}}

\* runPerception, step 5: one live host found by the scan
ScanHost(ip) ==
    /\ ppc = "scan"
    /\ ip \in liveHosts
    /\ ip \notin DOMAIN discoveredHosts
    /\ discoveredHosts' =
          discoveredHosts @@ (ip :> InventoryHost(IpAddress(ip), testHost(ip, detection)))
    /\ lookups' = lookups \cup ProbeLookups(detection)
    /\ UNCHANGED <<ppc, commandName, detection, liveHosts, inventory,
                   perceptionStore, pc, configFile, perceptionFile, configVars, workerVars,
                   finalResults, snapshot, storeVars, sideVars,
                   normVars, credVars>>

\* SplitN(svc, ".", 2)
SplitN2(svc) ==
    LET i == IndexOf(svc, ".")
    IN  IF i = 0 THEN <<svc>>
        ELSE <<SubSeq(svc, 1, i - 1), SubSeq(svc, i + 1, Len(svc))>>

\* writePerceptionToStore: the record of one detected service of a host
PerceptionRecord(ip, svc, now) ==
    LET parts == SplitN2(svc)
    IN  [host_key |-> ip, host_name |-> IpAddress(ip), host_address |-> IpAddress(ip),
         plugin |-> parts[1],
         name |-> IF Len(parts) = 2 THEN parts[2] ELSE <<>>,
         category |-> "discovery", metric_type |-> "status",
         value |-> Up, value_num |-> Float(1, <<>>),
         instance |-> <<>>, extra |-> <<>>, collected_at |-> now]

PerceptionRecords(ip, services, now) ==
    [i \in 1..Len(services) |-> PerceptionRecord(ip, services[i], now)]

\* hostMap["collect"].([]string)
ServicesOf(host) == [i \in 1..Len(host.collect.items) |-> host.collect.items[i].str]

RECURSIVE DiscoveryRecords(_, _, _)
\* writePerceptionToStore: the records of the discovered hosts, the hosts
\* taken in the order of the map iteration
DiscoveryRecords(discovered, order, now) ==
    IF order = <<>> THEN <<>>
    ELSE PerceptionRecords(Head(order), ServicesOf(discovered[Head(order)]), now)
            \o DiscoveryRecords(discovered, Tail(order), now)

\* writePerceptionToStore: WriteBatch is called unless there is no record
writePerceptionToStore(st, discovered, order, now) ==
    IF DiscoveryRecords(discovered, order, now) = <<>> THEN st
    ELSE [st EXCEPT !.batches = Append(@, DiscoveryRecords(discovered, order, now))]

\* runPerception, steps 6 and 7: data/perception.json is written, and the
\* detected services go to the store when one is attached
WriteInventory ==
    /\ ppc = "scan"
    /\ DOMAIN discoveredHosts = liveHosts
    /\ \E ok \in BOOLEAN, order \in Orders(DOMAIN discoveredHosts) :
          IF ok
          THEN /\ inventory' = InventoryFile(discoveredHosts)
               /\ ppc' = "done"
               /\ perceptionStore' =
                     IF perceptionStore.attached
                     THEN writePerceptionToStore(perceptionStore, discoveredHosts, order, 1)
                     ELSE perceptionStore
          ELSE UNCHANGED <<inventory, perceptionStore>> /\ ppc' = "writefailed"
    /\ UNCHANGED <<commandName, detection, liveHosts, discoveredHosts, lookups,
                   pc, configFile, perceptionFile, configVars, workerVars,
                   finalResults, snapshot, storeVars, sideVars,
                   normVars, credVars>>

NextPerception ==
    \/ OnCommand
    \/ \E ip \in LiveIPs : ScanHost(ip)
    \/ WriteInventory

SpecPerception == InitPerception /\ [][NextPerception]_vars

\* C10: every plugin lookup finds a plugin for the name X exactly when the
\* registry has one for lower(X), in OnCommand and in the detection probes
\* alike, and the registry holds lowercase keys only.
C10_LookupsIgnoreCase ==
    /\ \A k \in Plugins : k = ToLower(k)
    /\ \A l \in lookups : l.found = (ToLower(l.name) \in Plugins)

\* the detection probes of the environment that name a registered plugin
\* and an action, whose call returns without error, with a value "up" among
\* the returned metrics
Detected(tests) ==
    LET plugin(t) == SubSeq(t, 1, IndexOf(t, ".") - 1)
        action(t) == Split(t, ".")[2]
        up(t) == {l \in DOMAIN OnCollect(plugin(t), action(t)).metrics :
                    LET m == OnCollect(plugin(t), action(t)).metrics[l]
                    IN  "value" \in DOMAIN m /\ m["value"] = GoString(Up)}
        kept == {i \in 1..Len(tests) :
                    /\ IndexOf(tests[i], ".") > 0
                    /\ plugin(tests[i]) \in Plugins
                    /\ OnCollect(plugin(tests[i]), action(tests[i])).kind # "err"
                    /\ up(tests[i]) # {}}
        Pick[n \in 0..Len(tests)] ==
            IF n = 0 THEN <<>>
            ELSE IF n \in kept THEN Append(Pick[n - 1], tests[n]) ELSE Pick[n - 1]
    IN  Pick[Len(tests)]

\* the records handed to the store, all batches of the run together
ReceivedRecords == Concat(perceptionStore.batches)

MetricRecordWithNum(hostKey, hostName, hostAddress, m, now) ==
    [value_num |-> ParseValueNum(MetricValue(m))]
        @@ MetricRecord(hostKey, hostName, hostAddress, m, now)

\* values a collector puts in a metric map
MetricValues ==
    {GoString(s) : s \in
        {Up, Down, <<"U", "P">>, <<" ", "O", "k", " ">>, <<"p", "a", "u", "s", "e", "d">>,
         <<"4", "2">>, <<"9", "%">>, <<"3", ".", "1", "4">>, <<"7", ".">>, <<".", "5">>,
         <<"1", ".", "5", "0", "%">>, <<"%">>, <<"u", "p", "%">>, <<".">>, <<>>,
         <<"a", "b", "c">>, <<"1", "2", "x">>, <<"5", " ", "m">>, <<"2", "H", "3", "0", "M">>,
         FormatTicks(8640000), FormatTicks(9001500),
         <<"-", "5">>, <<"+", "7", "%">>, <<"-", "0", ".", "5">>, <<"w", "a", "r", "n", "i", "n", "g">>,
         <<"5", "m", "%">>, <<"9", " ", "%">>, <<"1", "0", " ", "m", "b", "p", "s">>,
         <<"N", "a", "N">>, <<"i", "n", "f">>, <<"-", "I", "n", "f", "%">>}}
    \cup {GoNum("int", 0), GoNum("int", 42), GoNum("uint32", 7), GoNum("uint64", 1024),
          GoBytes(<<"4", "2">>), Null}

\* metric maps: with name or with label only, with and without a value
ValueMetrics ==
    {[category |-> "c", name |-> <<"q">>, value |-> v, type |-> "gauge"] :
        v \in MetricValues}
    \cup {[label |-> <<"q">>, value |-> v] : v \in MetricValues}
    \cup {[name |-> <<"q">>]}

InitValue ==
    /\ ifaceRun = <<>>
    /\ sshRun = <<>>
    /\ session = <<>>
    /\ tableWalk = <<>>
    /\ ticksRun = <<>>
    /\ mailRun = <<>>
    /\ probeRun = <<>>
    /\ shell = <<>>
    /\ NoCollection
    /\ NoStore
    /\ NoNormalization
    /\ NoCredential
    /\ NoPerception
    /\ \/ \E m \in ValueMetrics :
             valueRun = [pc |-> "engine", metric |-> m, ip |-> "h1",
                         services |-> <<>>, records |-> <<>>]
       \/ \E ip \in LiveIPs, services \in SeqsUpTo(Probes, MaxDetection) :
             valueRun = [pc |-> "perception", metric |-> <<>>, ip |-> ip,
                         services |-> services, records |-> <<>>]

ValueUnchanged ==
    UNCHANGED <<pc, ifaceRun, sshRun, session, tableWalk, ticksRun, mailRun, probeRun, shell,
                configFile, perceptionFile, configVars, workerVars,
                finalResults, snapshot, storeVars, normVars, credVars,
                perceptionVars>>

\* writeToStore, the record of one metric map of a host
EngineBuildsRecord ==
    /\ valueRun # <<>>
    /\ valueRun.pc = "engine"
    /\ valueRun' = [valueRun EXCEPT
          !.pc = "built",
          !.records = <<MetricRecordWithNum(valueRun.ip, IpAddress(valueRun.ip),
                                            IpAddress(valueRun.ip),
                                            valueRun.metric, 1)>>]
    /\ ValueUnchanged

\* writePerceptionToStore, the records of one discovered host
PerceptionBuildsRecords ==
    /\ valueRun # <<>>
    /\ valueRun.pc = "perception"
    /\ valueRun' = [valueRun EXCEPT
          !.pc = "built",
          !.records = PerceptionRecords(valueRun.ip, valueRun.services, 1)]
    /\ ValueUnchanged

NextValue == EngineBuildsRecord \/ PerceptionBuildsRecords

SpecValue == InitValue /\ [][NextValue]_vars

\* C25: every MetricRecord built by the collection engine or by the
\* perception run has value_num null or equal to ParseValueNum(value)
C25_ValueNumIsParsedValue ==
    valueRun # <<>> =>
        \A i \in 1..Len(valueRun.records) :
            \/ valueRun.records[i].value_num = Null
            \/ valueRun.records[i].value_num = ParseValueNum(valueRun.records[i].value)

\* the perception run built two records, each with value up and value_num 1
C25_Witness ==
    /\ valueRun # <<>>
    /\ valueRun.pc = "built"
    /\ valueRun.metric = <<>>
    /\ Len(valueRun.records) = 2
    /\ \A i \in 1..2 : valueRun.records[i].value_num = Float(1, <<>>)

\* the class of a trimmed, case-folded value and the number it stands for:
\* a status word, a percentage N% with N a number, a number, a text with
\* matches of digits and a unit letter d, h, m or s (blanks may stand between
\* the digits and the letter), or none of these
ValueClass(v) ==
    LET n == SubSeq(v, 1, Len(v) - 1)
        ms == FindDurations(v, 1)
        seconds(u) == CASE u = "d" -> 24 * 60 * 60 [] u = "h" -> 60 * 60
                        [] u = "m" -> 60 [] OTHER -> 1
        Total[k \in 0..Len(ms)] ==
            IF k = 0 THEN 0 ELSE Total[k - 1] + Atoi(ms[k].num) * seconds(ms[k].unit)
    IN  IF v \in {Up, <<"o", "k">>, <<"r", "u", "n", "n", "i", "n", "g">>,
                  <<"a", "c", "t", "i", "v", "e">>, <<"o", "n", "l", "i", "n", "e">>,
                  <<"r", "e", "a", "c", "h", "a", "b", "l", "e">>, <<"o", "p", "e", "n">>}
        THEN [class |-> "status", num |-> Float(1, <<>>)]
        ELSE IF v \in {<<"w", "a", "r", "n", "i", "n", "g">>,
                       <<"d", "e", "g", "r", "a", "d", "e", "d">>,
                       <<"p", "a", "u", "s", "e", "d">>}
        THEN [class |-> "status", num |-> Float(0, <<"5">>)]
        ELSE IF v \in {Down, <<"c", "r", "i", "t", "i", "c", "a", "l">>,
                       <<"e", "r", "r", "o", "r">>, <<"o", "f", "f", "l", "i", "n", "e">>,
                       <<"i", "n", "a", "c", "t", "i", "v", "e">>,
                       <<"u", "n", "r", "e", "a", "c", "h", "a", "b", "l", "e">>,
                       <<"c", "l", "o", "s", "e", "d">>}
        THEN [class |-> "status", num |-> Float(0, <<>>)]
        ELSE IF v # <<>> /\ v[Len(v)] = "%" /\ ParseFloatOK(n)
        THEN [class |-> "percent", num |-> ParseFloat(n)]
        ELSE IF ParseFloatOK(v) THEN [class |-> "number", num |-> ParseFloat(v)]
        ELSE IF ms # <<>> THEN [class |-> "duration", num |-> Float(Total[Len(ms)], <<>>)]
        ELSE [class |-> "none", num |-> Null]

\* the class of the value of the record the engine built
BuiltClass == ValueClass(ToLower(TrimSpace(valueRun.records[1].value))).class

MaxWaits == 2

ShellPatterns == {<<"#">>, <<"#", "|", ">">>}

NewWait(pattern) ==
    [pattern |-> TrimSpace(pattern), buffer |-> <<>>, output |-> <<>>,
     reader |-> "reading", timer |-> FALSE, pc |-> "select",
     out |-> <<>>, err |-> "none"]

InitShell ==
    /\ ifaceRun = <<>>
    /\ sshRun = <<>>
    /\ session = <<>>
    /\ tableWalk = <<>>
    /\ ticksRun = <<>>
    /\ mailRun = <<>>
    /\ probeRun = <<>>
    /\ valueRun = <<>>
    /\ NoCollection
    /\ NoStore
    /\ NoNormalization
    /\ NoCredential
    /\ NoPerception
    /\ \E stream \in StreamsUpTo(MaxStream + 1), pattern \in ShellPatterns,
          ending \in {"eof", "silent"} :
          shell = [device |-> stream, ending |-> ending, pipe |-> <<>>,
                   emitted |-> <<>>, pattern |-> pattern, calls |-> <<>>]

ShellUnchanged ==
    UNCHANGED <<pc, ifaceRun, sshRun, session, tableWalk, ticksRun, mailRun, probeRun,
                valueRun, configFile, perceptionFile, configVars, workerVars,
                finalResults, snapshot, storeVars, normVars, credVars,
                perceptionVars>>

\* the remote shell writes its next rune
DeviceWrites ==
    /\ shell # <<>>
    /\ shell.device # <<>>
    /\ shell' = [shell EXCEPT !.device = Tail(@),
                              !.pipe = Append(@, Head(shell.device)),
                              !.emitted = Append(@, Head(shell.device))]
    /\ ShellUnchanged

\* runCommandGroups: sess.WaitFor(cmd.WaitFor), once the call before it
\* has returned
ShellWaitFor ==
    /\ shell # <<>>
    /\ Len(shell.calls) < MaxWaits
    /\ shell.calls # <<>> => shell.calls[Len(shell.calls)].pc = "returned"
    /\ shell' = [shell EXCEPT !.calls = Append(@, NewWait(shell.pattern))]
    /\ ShellUnchanged

\* the reader goroutine of call k inside ReadRune, its bufio.Reader empty:
\* one Read of s.Stdout takes the bytes that are there into the buffer
\* (any number of them, at least one); at the end of the stream the error
\* goes to errChan
ReaderFills(k) ==
    /\ shell # <<>>
    /\ k \in 1..Len(shell.calls)
    /\ shell.calls[k].reader = "reading"
    /\ shell.calls[k].buffer = <<>>
    /\ IF shell.pipe # <<>>
       THEN \E n \in 1..Len(shell.pipe) :
               shell' = [shell EXCEPT
                  !.pipe = SubSeq(@, n + 1, Len(@)),
                  !.calls[k].buffer = SubSeq(shell.pipe, 1, n)]
       ELSE /\ shell.device = <<>>
            /\ shell.ending = "eof"
            /\ shell' = [shell EXCEPT !.calls[k].reader = "failed"]
    /\ ShellUnchanged

\* the reader goroutine of call k: ReadRune returns the next buffered rune,
\* output.WriteRune, re.MatchString
ReaderTakesRune(k) ==
    /\ shell # <<>>
    /\ k \in 1..Len(shell.calls)
    /\ shell.calls[k].reader = "reading"
    /\ shell.calls[k].buffer # <<>>
    /\ LET c == shell.calls[k]
           output == Append(c.output, Head(c.buffer))
       IN  shell' = [shell EXCEPT
              !.calls[k].buffer = Tail(@),
              !.calls[k].output = output,
              !.calls[k].reader = AfterRune(c.pattern, output)]
    /\ ShellUnchanged

\* time.After(15 * time.Second) of call k delivers
ShellTimerFires(k) ==
    /\ shell # <<>>
    /\ k \in 1..Len(shell.calls)
    /\ shell.calls[k].pc = "select"
    /\ ~shell.calls[k].timer
    /\ shell' = [shell EXCEPT !.calls[k].timer = TRUE]
    /\ ShellUnchanged

\* the cases of the select of a call that can proceed
ShellReadyCases(c) ==
    (IF c.reader = "matched" THEN {"nil"} ELSE {})
        \cup (IF c.reader = "failed" THEN {"io"} ELSE {})
        \cup (IF c.timer THEN {"timeout"} ELSE {})

\* select of call k: return output.String() and the error of the case
ShellWaitReturns(k) ==
    /\ shell # <<>>
    /\ k \in 1..Len(shell.calls)
    /\ shell.calls[k].pc = "select"
    /\ \E case \in ShellReadyCases(shell.calls[k]) :
          shell' = [shell EXCEPT !.calls[k].pc = "returned",
                                 !.calls[k].out = shell.calls[k].output,
                                 !.calls[k].err = case]
    /\ ShellUnchanged

NextShell ==
    \/ DeviceWrites
    \/ ShellWaitFor
    \/ \E k \in 1..MaxWaits : ReaderFills(k)
    \/ \E k \in 1..MaxWaits : ReaderTakesRune(k)
    \/ \E k \in 1..MaxWaits : ShellTimerFires(k)
    \/ \E k \in 1..MaxWaits : ShellWaitReturns(k)

SpecShell == InitShell /\ [][NextShell]_vars

\* what the calls returned so far, in the order of the calls
ReturnedOutputs ==
    Concat([k \in 1..Len(shell.calls) |->
               IF shell.calls[k].pc = "returned" THEN shell.calls[k].out
               ELSE shell.calls[k].output \o shell.calls[k].buffer])

\* C26: once a WaitFor call has returned its reader reads no more of stdout
\* and writes no more into its output, and what the device wrote is what
\* the calls returned, in order, followed by what the next call will read
C26_CallsShareTheStreamWithoutLoss ==
    shell # <<>> =>
       /\ \A k \in 1..Len(shell.calls) :
             shell.calls[k].pc = "returned" =>
                /\ shell.calls[k].reader # "reading"
                /\ shell.calls[k].buffer = <<>>
                /\ shell.calls[k].output = shell.calls[k].out
       /\ shell.emitted = ReturnedOutputs \o shell.pipe

(***************************************************************************)
(* SSH collection runs: one sshCollectPlugin.OnCollect from the opening of  *)
(* the session to its result.  runCommandGroups ranges over the maps        *)
(* prelude, info and outro of the device definition, in that order; the     *)
(* order inside a map is the one the range takes.  WaitFor is what the      *)
(* WaitFor runs show: a match, a timeout or a read error with the output    *)
(* read so far, or an invalid pattern with no output.                       *)
(***************************************************************************)
\* CommandDef with the fields runCommandGroups reads
SshCommand(command, waitfor, format) ==
    [command |-> command, waitfor |-> waitfor, format |-> format, category |-> "system",
     delimiter |-> ""]

NameExit == <<"e", "x", "i", "t">>

NameLogout == <<"l", "o", "g", "o", "u", "t">>

NoCommands == <<>>

\* plugins/sshcollect/devices/<type>.json
SshDefs ==
    {[prelude |-> (<<"p">> :> SshCommand(<<"p">>, <<"#">>, "hide")),
      info |-> (<<"i">> :> SshCommand(<<"i">>, <<"#">>, "single-column"))
                  @@ (<<"v">> :> SshCommand(<<"v">>, <<"(">>, "text")),
      outro |-> (NameLogout :> SshCommand(<<"q">>, <<"#">>, "hide"))],
     [prelude |-> NoCommands,
      info |-> (<<"i">> :> SshCommand(<<"i">>, <<"#">>, "single-column"))
                  @@ (NameExit :> SshCommand(<<"x">>, <<"#">>, "single-column")),
      outro |-> (<<"i">> :> SshCommand(<<"o">>, <<"#">>, "hide"))],
     [prelude |-> (NameExit :> SshCommand(<<"x">>, <<"#">>, "hide")),
      info |-> NoCommands,
      outro |-> NoCommands]}

\* commandGroups := []map[string]CommandDef{def.Prelude, def.Info, def.Outro}
commandGroups(def) == <<def.prelude, def.info, def.outro>>

\* a runCommandGroups that awaits every command
UnawaitedNone(name) == FALSE

\* name == "exit" || name == "logout": continue
Unawaited(name) == name \in {NameExit, NameLogout}

\* if name != "exit" && name != "logout": the output is stored
Unrecorded(name) == name \in {NameExit, NameLogout}

\* what the device prints for a command: its echo, one line and the prompt
DeviceOutput(cmd) == cmd.command \o <<"\n", "k", ":", "v", "\n", "#">>

\* what a WaitFor call can return for a command: {outcome, output}
WaitResults(cmd) ==
    IF ~Compiles(TrimSpace(cmd.waitfor))
    THEN {[outcome |-> "invalid", output |-> <<>>]}
    ELSE {[outcome |-> "match", output |-> DeviceOutput(cmd)]}
            \cup {[outcome |-> o, output |-> SubSeq(DeviceOutput(cmd), 1, n)] :
                     o \in {"timeout", "error"}, n \in 0..(Len(DeviceOutput(cmd)) - 1)}

\* a runCommandGroups that returns the error of WaitFor
AfterWaitFailing(outcome) == IF outcome = "match" THEN "send" ELSE "failed"

\* after WaitFor: the error is printed as a warning and the loop goes on
AfterWait(outcome) == "send"

SshError == [kind |-> "err", metrics |-> <<>>, interfaces |-> <<>>]

InitSsh ==
    /\ ifaceRun = <<>>
    /\ session = <<>>
    /\ tableWalk = <<>>
    /\ ticksRun = <<>>
    /\ mailRun = <<>>
    /\ probeRun = <<>>
    /\ valueRun = <<>>
    /\ shell = <<>>
    /\ NoCollection
    /\ NoStore
    /\ NoNormalization
    /\ NoCredential
    /\ NoPerception
    /\ \E def \in SshDefs :
          sshRun = [def |-> def, pc |-> "open", group |-> 0, todo |-> {}, name |-> <<>>,
                    log |-> <<>>, results |-> <<>>, returned |-> <<>>]

SshUnchanged ==
    UNCHANGED <<pc, ifaceRun, session, tableWalk, ticksRun, mailRun, probeRun, valueRun, shell,
                configFile, perceptionFile, configVars, workerVars,
                finalResults, snapshot, storeVars, normVars, credVars,
                perceptionVars>>

\* OnCollect up to the banner: the credentials, the port, the device
\* definition, Connect and Shell, any of which can fail; then
\* WaitFor("#|>"), whose result is dropped
SshOpen ==
    /\ sshRun # <<>>
    /\ sshRun.pc = "open"
    /\ \E ok \in BOOLEAN :
          sshRun' = IF ok
                    THEN [sshRun EXCEPT !.pc = "send", !.group = 1,
                                        !.todo = DOMAIN commandGroups(sshRun.def)[1]]
                    ELSE [sshRun EXCEPT !.pc = "notopened", !.returned = SshError]
    /\ SshUnchanged

\* for _, group := range commandGroups: the next group
SshNextGroup ==
    /\ sshRun # <<>>
    /\ sshRun.pc = "send"
    /\ sshRun.todo = {}
    /\ sshRun.group < Len(commandGroups(sshRun.def))
    /\ sshRun' = [sshRun EXCEPT !.group = @ + 1,
                                !.todo = DOMAIN commandGroups(sshRun.def)[sshRun.group + 1]]
    /\ SshUnchanged

\* for name, cmd := range group: sess.Send(cmd.Command), which can fail
SshSend ==
    /\ sshRun # <<>>
    /\ sshRun.pc = "send"
    /\ \E name \in sshRun.todo, ok \in BOOLEAN :
          LET event == [group |-> sshRun.group, name |-> name]
          IN  sshRun' =
                 IF ~ok
                 THEN [sshRun EXCEPT !.pc = "failed", !.returned = SshError,
                                     !.log = Append(@, [ev |-> "sendfailed"] @@ event)]
                 ELSE [sshRun EXCEPT !.pc = IF Unawaited(name) THEN "send" ELSE "wait",
                                     !.name = name, !.todo = @ \ {name},
                                     !.log = Append(@, [ev |-> "send"] @@ event)]
    /\ SshUnchanged

\* output, err := sess.WaitFor(cmd.WaitFor); results[name] = output
SshWaitFor ==
    /\ sshRun # <<>>
    /\ sshRun.pc = "wait"
    /\ \E w \in WaitResults(commandGroups(sshRun.def)[sshRun.group][sshRun.name]) :
          sshRun' = [sshRun EXCEPT
                        !.pc = AfterWait(w.outcome),
                        !.results = IF Unrecorded(sshRun.name) THEN @
                                    ELSE (sshRun.name :> w.output) @@ @,
                        !.log = Append(@, [ev |-> "returned", group |-> sshRun.group,
                                           name |-> sshRun.name, outcome |-> w.outcome,
                                           output |-> w.output])]
    /\ SshUnchanged

\* return results, nil; OnCollect returns parseCollection(commandResults,
\* deviceDef)
SshReturn ==
    /\ sshRun # <<>>
    /\ sshRun.pc = "send"
    /\ sshRun.todo = {}
    /\ sshRun.group = Len(commandGroups(sshRun.def))
    /\ sshRun' = [sshRun EXCEPT !.pc = "done",
                                !.returned = parseCollection(sshRun.results, sshRun.def)]
    /\ SshUnchanged

NextSsh ==
    \/ SshOpen
    \/ SshNextGroup
    \/ SshSend
    \/ SshWaitFor
    \/ SshReturn

SpecSsh == InitSsh /\ [][NextSsh]_vars

\* the entries of the device definition: {group, name}
SshEntries(def) ==
    UNION {{[group |-> g, name |-> n] : n \in DOMAIN commandGroups(def)[g]} :
              g \in 1..Len(commandGroups(def))}

\* the events of the log that are the Send and the WaitFor of an entry
SendsOf(log, e) ==
    {j \in 1..Len(log) : log[j].ev = "send" /\ log[j].group = e.group /\ log[j].name = e.name}

ReturnsOf(log, e) ==
    {j \in 1..Len(log) :
        log[j].ev = "returned" /\ log[j].group = e.group /\ log[j].name = e.name}

\* C35: in one SSH collection the commands are sent group by group,
\* prelude, info, outro; a command is sent only after the WaitFor of the
\* awaited command before it has returned; the entries exit and logout are
\* sent, never awaited and never recorded.
C35_CommandsRunInGroupOrder ==
    sshRun # <<>> =>
        LET log == sshRun.log
        IN  /\ \A i, j \in 1..Len(log) : i < j => log[i].group <= log[j].group
            /\ \A j \in 1..Len(log) :
                  (log[j].ev \in {"send", "sendfailed"} /\ j > 1) =>
                      \/ log[j - 1].ev = "returned"
                      \/ log[j - 1].ev = "send" /\ log[j - 1].name \in {NameExit, NameLogout}
            /\ \A j \in 1..Len(log) :
                  log[j].ev = "returned" =>
                      /\ log[j].name \notin {NameExit, NameLogout}
                      /\ j > 1
                      /\ log[j - 1].ev = "send"
                      /\ log[j - 1].name = log[j].name
                      /\ log[j - 1].group = log[j].group
            /\ DOMAIN sshRun.results \cap {NameExit, NameLogout} = {}
            /\ sshRun.pc = "done" =>
                  \A e \in SshEntries(sshRun.def) :
                      /\ Cardinality(SendsOf(log, e)) = 1
                      /\ e.name \notin {NameExit, NameLogout} =>
                            Cardinality(ReturnsOf(log, e)) = 1

\* a finished collection that sent exit after an awaited command of an
\* earlier group
C35_Witness ==
    /\ sshRun # <<>>
    /\ sshRun.pc = "done"
    /\ \E i, j \in 1..Len(sshRun.log) :
          /\ i < j
          /\ sshRun.log[i].ev = "returned"
          /\ sshRun.log[i].group < sshRun.log[j].group
          /\ sshRun.log[j].name = NameLogout

\* the lines of a recorded output that hold the delimiter
KeyLines(output) == {j \in 1..Len(BodyLines(output)) : IndexOf(BodyLines(output)[j], ":") # 0}

\* C36: a WaitFor that returns a timeout, a read error or an invalid pattern
\* does not end the collection: its output is recorded under the name of the
\* command, the loop goes on with the commands left, and the result of a
\* finished collection holds the metrics of the recorded outputs; the
\* collection fails only at a failed Send, and then returns an error and no
\* metrics.
C36_OnlySendAborts ==
    /\ [][(sshRun # <<>> /\ sshRun.pc = "wait" /\ sshRun' # sshRun) =>
            /\ sshRun'.pc = "send"
            /\ sshRun'.todo = sshRun.todo
            /\ sshRun.name \in DOMAIN sshRun'.results
            /\ sshRun'.results[sshRun.name] = sshRun'.log[Len(sshRun'.log)].output]_vars
    /\ [](sshRun # <<>> =>
            /\ sshRun.pc = "failed" =>
                  /\ sshRun.log[Len(sshRun.log)].ev = "sendfailed"
                  /\ sshRun.returned = SshError
            /\ (sshRun.log # <<>> /\ sshRun.log[Len(sshRun.log)].ev = "sendfailed") =>
                  sshRun.pc = "failed"
            /\ sshRun.pc = "done" =>
                  /\ sshRun.returned.kind = "ok"
                  /\ \A e \in SshEntries(sshRun.def) : SendsOf(sshRun.log, e) # {}
                  /\ \A n \in DOMAIN sshRun.results \cap DOMAIN sshRun.def.info :
                        sshRun.def.info[n].format = "single-column" =>
                            \A j \in KeyLines(sshRun.results[n]) :
                                DOMAIN LineMetric(BodyLines(sshRun.results[n])[j],
                                                  sshRun.def.info[n])
                                    \subseteq DOMAIN sshRun.returned.metrics)

\* a finished collection in which a WaitFor timed out after the line k:v,
\* a later command was sent, and the metric k is in the result
C36_Witness ==
    /\ sshRun # <<>>
    /\ sshRun.pc = "done"
    /\ <<"k">> \in DOMAIN sshRun.returned.metrics
    /\ \E i, j \in 1..Len(sshRun.log) :
          /\ i < j
          /\ sshRun.log[i].ev = "returned"
          /\ sshRun.log[i].outcome = "timeout"
          /\ sshRun.log[i].name = <<"i">>
          /\ sshRun.log[i].group = 2
          /\ sshRun.log[i].output = <<"i", "\n", "k", ":", "v", "\n">>
          /\ sshRun.log[j].ev = "send"
          /\ sshRun.results = (<<"i">> :> sshRun.log[i].output) @@ sshRun.results

(***************************************************************************)
(* Interface run: the interface records of one SNMP task, from the table   *)
(* walks of querySNMP to the rows UpsertInterfaces leaves in the database.  *)
(***************************************************************************)
ColAlias == [sub_oid |-> <<"1">>, name |-> <<"a">>, format |-> "string", role |-> "alias"]

\* a second interface table of the same device, indexed as the first one
IfXTable == [base_oid |-> <<"c">>, type |-> "interface", columns |-> <<ColAlias>>]

\* an interface table indexed by two numbers
IfStackTable == [base_oid |-> <<"d">>, type |-> "interface", columns |-> <<ColDescr>>]

\* device definitions: one interface table, two interface tables, and a
\* table whose row index is not a single integer
IfaceDefs ==
    {[oids |-> <<>>, tables |-> <<IfTable>>],
     [oids |-> <<>>, tables |-> <<IfTable, IfXTable>>],
     [oids |-> <<>>, tables |-> <<IfStackTable>>]}

\* the agent's answer to the walk of each table
IfaceWalks ==
    AgentWalks @@
    (<<"c">> :>
        <<Pdu(<<"c", ".", "1", ".", "1">>, "OctetString", GoBytes(<<"a">>)),
          Pdu(<<"c", ".", "1", ".", "2">>, "OctetString", GoBytes(<<"a">>))>>) @@
    (<<"d">> :>
        <<Pdu(<<"d", ".", "2", ".", "1", ".", "1">>, "OctetString", GoBytes(<<"e">>)),
          Pdu(<<"d", ".", "2", ".", "1", ".", "2">>, "OctetString", GoBytes(<<"f">>))>>)

\* the iteration orders processInterfaceTable can take over the rows of a walk
RowOrders(rows) ==
    {[rowOrder |-> ro, colOrder |-> co] :
        ro \in Orders(DOMAIN rows),
        co \in {c \in [DOMAIN rows -> UNION {Orders(DOMAIN rows[r]) : r \in DOMAIN rows}] :
                   \A r \in DOMAIN rows : c[r] \in Orders(DOMAIN rows[r])}}

InitIface ==
    /\ sshRun = <<>>
    /\ session = <<>>
    /\ tableWalk = <<>>
    /\ ticksRun = <<>>
    /\ mailRun = <<>>
    /\ probeRun = <<>>
    /\ valueRun = <<>>
    /\ shell = <<>>
    /\ NoCollection
    /\ NoStore
    /\ NoNormalization
    /\ NoCredential
    /\ NoPerception
    /\ \E def \in IfaceDefs :
       \E sel \in [{def.tables[i].base_oid : i \in 1..Len(def.tables)} ->
                      SUBSET (1..Len(AgentWalks[IfTable.base_oid]))] :
          /\ \A b \in DOMAIN sel : sel[b] \subseteq 1..Len(IfaceWalks[b])
          /\ ifaceRun = [pc |-> "query", def |-> def,
                         walks |-> [b \in DOMAIN sel |-> PdusAt(IfaceWalks[b], sel[b])],
                         interfaces |-> <<>>, records |-> <<>>,
                         db |-> OpenedDatabase, err |-> FALSE]

IfaceUnchanged ==
    UNCHANGED <<pc, sshRun, session, tableWalk, ticksRun, mailRun, probeRun, valueRun, shell,
                configFile, perceptionFile, configVars, workerVars, finalResults, snapshot,
                storeVars, normVars, credVars, perceptionVars>>

\* snmpPlugin.querySNMP: the interfaces of every table of type interface
IfaceQuery ==
    /\ ifaceRun # <<>>
    /\ ifaceRun.pc = "query"
    /\ \E orders \in [1..Len(ifaceRun.def.tables) ->
                         UNION {RowOrders(walkTable(ifaceRun.walks[t.base_oid], t)) :
                                   t \in {ifaceRun.def.tables[i] :
                                             i \in 1..Len(ifaceRun.def.tables)}}] :
          /\ \A i \in DOMAIN orders :
                orders[i] \in RowOrders(walkTable(ifaceRun.walks[ifaceRun.def.tables[i].base_oid],
                                                  ifaceRun.def.tables[i]))
          /\ ifaceRun' = [ifaceRun EXCEPT
                            !.pc = "records",
                            !.interfaces = querySNMP(ifaceRun.def, <<>>, ifaceRun.walks,
                                                     orders).interfaces]
    /\ IfaceUnchanged

\* writeToStore: the interface list of the host as interface records
IfaceToRecords ==
    /\ ifaceRun # <<>>
    /\ ifaceRun.pc = "records"
    /\ ifaceRun' = [ifaceRun EXCEPT
                      !.pc = "upsert",
                      !.records = InterfaceListToRecords(<<"h", "1">>, <<"h", "1">>, AddrY,
                                                         ifaceRun.interfaces)]
    /\ IfaceUnchanged

\* writeToStore: st.UpsertInterfaces(ifaceRecords)
IfaceUpsert ==
    /\ ifaceRun # <<>>
    /\ ifaceRun.pc = "upsert"
    /\ LET w == UpsertInterfaces(ifaceRun.db, <<>>, ifaceRun.records, NoFaults)
       IN  ifaceRun' = [ifaceRun EXCEPT !.pc = "done", !.db = w.db, !.err = w.err]
    /\ IfaceUnchanged

NextIface == IfaceQuery \/ IfaceToRecords \/ IfaceUpsert

SpecIface == InitIface /\ [][NextIface]_vars

\* C37: the interface records handed to UpsertInterfaces in one run hold at
\* most one record per if_index, and so the metadata of every record of the
\* run is in the interfaces table when the call has returned
C37_OneRecordPerIfIndex ==
    /\ ifaceRun # <<>> =>
          \A i, j \in 1..Len(ifaceRun.records) :
             ifaceRun.records[i].if_index = ifaceRun.records[j].if_index => i = j
    /\ (ifaceRun # <<>> /\ ifaceRun.pc = "done" /\ ~ifaceRun.err) =>
          \A i \in 1..Len(ifaceRun.records) :
             \E k \in 1..Len(ifaceRun.db.interfaces) :
                /\ ifaceRun.db.interfaces[k].if_index = ifaceRun.records[i].if_index
                /\ Metadata(ifaceRun.db.interfaces[k]) = Metadata(ifaceRun.records[i])

====
